---- MODULE Spec2Model ----
(***************************************************************************)
(* Deep merge of JSON settings maps (internal/merge/merge.go).             *)
(*                                                                         *)
(* Go maps are reference values: a map[string]any stored under a key of    *)
(* another map is the same object wherever it is reachable from.  The      *)
(* model therefore keeps a heap of map objects and lets values be either   *)
(* scalars or references into the heap, so that aliasing between the       *)
(* merged tree and the inputs is visible.                                  *)
(*                                                                         *)
(* Directory sync (internal/dirsync/dirsync.go) and the settings command   *)
(* (cmd/claude-config-merge/run.go with internal/backup) work on files:    *)
(* they are modelled further down as step machines over a file system,     *)
(* one step per system call, so that the files visible at every            *)
(* intermediate point and after every failed call are states of the model. *)
(***************************************************************************)
EXTENDS Integers, Sequences, FiniteSets, TLC

VARIABLES heap, master, local, calls,   \* Merge: heap of maps, roots, calls
          fs, sy,                       \* Sync: file tree, position in Sync
          disk, rs,                     \* run: settings files, position in run
          cl,                           \* runCleanupBak: position in the command
          cmd                           \* dispatch: position in the all command

vars == <<heap, master, local, calls, fs, sy, disk, rs, cl, cmd>>

\* each machine leaves the variables of the others alone
mergeVars == <<heap, master, local, calls>>
syncVars == <<fs, sy>>
runVars == <<disk, rs>>
cmdVars == <<cl, cmd>>

\* cmd when one command runs by itself: there is no sequence of commands
Single == [stage |-> "single", force |-> FALSE, start |-> <<>>,
           agents |-> <<>>]

----------------------------------------------------------------------------
(* Bounds of the model *)

\* total number of key entries of master and local together
MaxEntries == 4

----------------------------------------------------------------------------
(* Strings are sequences of byte values, compared as Go compares strings. *)

\* the byte '.' that qualifiedKey puts between prefix and key
Dot == 46

\* object keys "a", "b" and "a.b" (a key that contains the separator)
Keys == { <<97>>, <<98>>, <<97, Dot, 98>> }

\* non-object JSON values (strings, numbers, booleans, lists), compared by value
Scalars == { "x", "y" }

RECURSIVE StrLess(_, _)
StrLess(s, t) ==
    IF t = <<>> THEN FALSE
    ELSE IF s = <<>> THEN TRUE
    ELSE IF Head(s) # Head(t) THEN Head(s) < Head(t)
    ELSE StrLess(Tail(s), Tail(t))

----------------------------------------------------------------------------
(* Values and the heap of map objects *)

Addr(root, n, path) == [root |-> root, n |-> n, path |-> path]

\* the nil map
Nil == Addr("nil", 0, <<>>)

Scalar(s) == [kind |-> "scalar", s |-> s, ref |-> Nil]
Ref(a) == [kind |-> "map", s |-> "", ref |-> a]

IsMap(v) == v.kind = "map"

\* reflect.DeepEqual on two values of the JSON value model
RECURSIVE DeepEqual(_, _, _)
DeepEqual(h, v, w) ==
    IF IsMap(v) /\ IsMap(w)
    THEN /\ DOMAIN h[v.ref] = DOMAIN h[w.ref]
         /\ \A k \in DOMAIN h[v.ref] : DeepEqual(h, h[v.ref][k], h[w.ref][k])
    ELSE /\ ~IsMap(v)
         /\ ~IsMap(w)
         /\ v.s = w.s

----------------------------------------------------------------------------
(* JSON documents and their decoding into fresh maps (loadJSON) *)

\* a document is an object: sc holds its scalar members, ob its object members
RECURSIVE SumSizes(_, _)
RECURSIVE Size(_)
Size(t) == Cardinality(DOMAIN t.sc) + Cardinality(DOMAIN t.ob)
             + SumSizes(t, DOMAIN t.ob)
SumSizes(t, S) ==
    IF S = {} THEN 0
    ELSE LET k == CHOOSE x \in S : TRUE
         IN Size(t.ob[k]) + SumSizes(t, S \ {k})

\* a section: an object whose members are all scalars, at most n of them
Sections(n) ==
    UNION { { [sc |-> f, ob |-> <<>>] : f \in [S -> Scalars] }
            : S \in { x \in SUBSET Keys : Cardinality(x) <= n } }

\* a settings document of at most n entries: its members are scalars or
\* sections (as in settings.json: "model": ..., "env": {...})
Documents(n) ==
    UNION {
      LET sub == Sections(n - Cardinality(sh[1]) - Cardinality(sh[2]))
      IN { t \in { [sc |-> f, ob |-> g] : f \in [sh[1] -> Scalars],
                                           g \in [sh[2] -> sub] } :
             Size(t) <= n }
      : sh \in { x \in (SUBSET Keys) \X (SUBSET Keys) :
                   /\ x[1] \cap x[2] = {}
                   /\ Cardinality(x[1]) + Cardinality(x[2]) <= n } }

AllDocuments == Documents(MaxEntries)

DocumentsOfSize == [ n \in 0..MaxEntries |-> { t \in AllDocuments : Size(t) = n } ]

\* the sections with the keys of section o
SectionsLike(o) == { [sc |-> f, ob |-> <<>>] : f \in [DOMAIN o.sc -> Scalars] }

\* the documents with the keys of document m at every level: copies of m in
\* which scalar values have been edited
EditedCopies(m) ==
    { [sc |-> f, ob |-> g] :
        f \in [DOMAIN m.sc -> Scalars],
        g \in { x \in [DOMAIN m.ob ->
                         UNION { SectionsLike(m.ob[k]) : k \in DOMAIN m.ob }] :
                  \A k \in DOMAIN m.ob : x[k] \in SectionsLike(m.ob[k]) } }

\* the pairs <<master document, local document>> that are loaded: all pairs
\* of at most MaxEntries entries together, and every master document of
\* fewer than MaxEntries entries with each of its edited copies
InputPairs ==
    UNION { DocumentsOfSize[ij[1]] \X DocumentsOfSize[ij[2]] :
              ij \in { x \in (0..MaxEntries) \X (0..MaxEntries) :
                         x[1] + x[2] <= MaxEntries } }
    \cup UNION { UNION { {m} \X EditedCopies(m) : m \in DocumentsOfSize[i] } :
                   i \in 0..MaxEntries - 1 }

RECURSIVE Paths(_)
Paths(t) == {<<>>} \cup UNION { { <<k>> \o p : p \in Paths(t.ob[k]) } : k \in DOMAIN t.ob }

RECURSIVE At(_, _)
At(t, p) == IF p = <<>> THEN t ELSE At(t.ob[Head(p)], Tail(p))

\* json.Unmarshal into map[string]any: every object becomes a map of its own
loadJSON(t, root) ==
    [ a \in { Addr(root, 0, p) : p \in Paths(t) } |->
        LET o == At(t, a.path)
        IN [ k \in DOMAIN o.sc \cup DOMAIN o.ob |->
               IF k \in DOMAIN o.sc THEN Scalar(o.sc[k])
               ELSE Ref(Addr(root, 0, a.path \o <<k>>)) ] ]

----------------------------------------------------------------------------
(* merge.go *)

\* qualifiedKey that drops the prefix
qualifiedKeyNoPrefix(prefix, key) == key

qualifiedKey(prefix, key) ==
    IF prefix = <<>> THEN key ELSE prefix \o <<Dot>> \o key

\* the keys of a map in the order a range loop visits them
RangeKeys(order, m) == SelectSeq(order, LAMBDA k : k \in DOMAIN m)

\* dst[k] = v
MapSet(h, dst, k, v) == [h EXCEPT ![dst] = (k :> v) @@ @]

\* the second loop recording the bare key instead of the qualified key
localOnlyKeysUnqualified(h, dst, src, localSrc, prefix, order) ==
    SelectSeq(RangeKeys(order, h[dst]),
              LAMBDA k : /\ k \notin DOMAIN h[src]
                         /\ localSrc # Nil
                         /\ k \in DOMAIN h[localSrc])

\* the second loop of mergeInto: keys of dst not in master that the original
\* local map holds
localOnlyKeys(h, dst, src, localSrc, prefix, order) ==
    LET ks == SelectSeq(RangeKeys(order, h[dst]),
                        LAMBDA k : /\ k \notin DOMAIN h[src]
                                   /\ localSrc # Nil
                                   /\ k \in DOMAIN h[localSrc])
    IN [ i \in 1..Len(ks) |-> qualifiedKey(prefix, ks[i]) ]

\* localSubMap, _ = localSrc[k].(map[string]any), nil when localSrc is nil,
\* lacks k or holds no map at k
localSubMapOf(h, localSrc, k) ==
    IF /\ localSrc # Nil
       /\ k \in DOMAIN h[localSrc]
       /\ IsMap(h[localSrc][k])
    THEN h[localSrc][k].ref
    ELSE Nil

\* addKey without dst[k] = srcVal
addKeyNotStored(st, dst, k, key, srcVal) ==
    [st EXCEPT !.Added = Append(@, key)]

\* addKey recording the bare key instead of the qualified key
addKeyUnqualified(st, dst, k, key, srcVal) ==
    [st EXCEPT !.heap = MapSet(st.heap, dst, k, srcVal),
               !.Added = Append(@, k)]

\* the key is absent from dst: master's value is stored and the key recorded
addKey(st, dst, k, key, srcVal) ==
    [st EXCEPT !.heap = MapSet(st.heap, dst, k, srcVal),
               !.Added = Append(@, key)]

\* matchKey appending to the wrong list
matchKeyAsAdded(st, key) == [st EXCEPT !.Added = Append(@, key)]

\* both values are deeply equal
matchKey(st, key) == [st EXCEPT !.Matching = Append(@, key)]

\* forceKey without the append to result.Forced
forceKeyUnrecorded(st, dst, k, key, srcVal) ==
    [st EXCEPT !.heap = MapSet(st.heap, dst, k, srcVal)]

\* forceKey that records the key and leaves local's value in place
forceKeyKeepsLocal(st, dst, k, key, srcVal) ==
    [st EXCEPT !.Forced = Append(@, key)]

\* forceKey that overwrites scalars only and keeps a local object
forceKeyKeepsMaps(st, dst, k, key, srcVal) ==
    IF IsMap(st.heap[dst][k])
    THEN [st EXCEPT !.Forced = Append(@, key)]
    ELSE [st EXCEPT !.heap = MapSet(st.heap, dst, k, srcVal),
                    !.Forced = Append(@, key)]

\* the values differ and force is set: master's value overwrites
forceKey(st, dst, k, key, srcVal) ==
    [st EXCEPT !.heap = MapSet(st.heap, dst, k, srcVal),
               !.Forced = Append(@, key)]

\* conflictKey with the two values in each other's field
conflictKeySwapped(st, key, srcVal, dstVal) ==
    [st EXCEPT !.Conflicts = Append(@, [Key |-> key, MasterValue |-> dstVal,
                                        LocalValue |-> srcVal])]

\* the values differ and force is not set: dst is left alone
conflictKey(st, key, srcVal, dstVal) ==
    [st EXCEPT !.Conflicts = Append(@, [Key |-> key, MasterValue |-> srcVal,
                                        LocalValue |-> dstVal])]

\* both values are maps and have been merged into dstVal's map: dst[k] = dstMap
writeBack(st, dst, k, dstVal) ==
    [st EXCEPT !.heap = MapSet(st.heap, dst, k, dstVal)]

RECURSIVE mergeInto(_, _, _, _, _, _, _)
RECURSIVE mergeKeys(_, _, _, _, _, _, _, _)

\* the first loop of mergeInto over the keys ks of src still to visit
mergeKeys(st, ks, dst, src, localSrc, prefix, force, order) ==
    IF ks = <<>> THEN st
    ELSE
      LET k      == Head(ks)
          key    == qualifiedKey(prefix, k)
          h      == st.heap
          srcVal == h[src][k]
          next   ==
            IF k \notin DOMAIN h[dst]
            THEN addKey(st, dst, k, key, srcVal)
            ELSE
              LET dstVal == h[dst][k] IN
              IF IsMap(srcVal) /\ IsMap(dstVal)
              THEN writeBack(mergeInto(st, dstVal.ref, srcVal.ref,
                                       localSubMapOf(h, localSrc, k),
                                       key, force, order),
                             dst, k, dstVal)
              ELSE IF DeepEqual(h, srcVal, dstVal)
              THEN matchKey(st, key)
              ELSE IF force
              THEN forceKey(st, dst, k, key, srcVal)
              ELSE conflictKey(st, key, srcVal, dstVal)
      IN mergeKeys(next, Tail(ks), dst, src, localSrc, prefix, force, order)

mergeInto(st, dst, src, localSrc, prefix, force, order) ==
    LET after == mergeKeys(st, RangeKeys(order, st.heap[src]), dst, src,
                           localSrc, prefix, force, order)
    IN [after EXCEPT !.LocalOnly =
          @ \o localOnlyKeys(after.heap, dst, src, localSrc, prefix, order)]

\* insertion sort, the algorithm package sort uses on slices shorter than 12;
\* elements with equal keys keep the order in which they were appended
RECURSIVE insertString(_, _)
insertString(s, e) ==
    IF s = <<>> THEN <<e>>
    ELSE IF StrLess(e, Head(s)) THEN <<e>> \o s
    ELSE <<Head(s)>> \o insertString(Tail(s), e)

\* sort.Strings
RECURSIVE sortStrings(_)
sortStrings(s) ==
    IF s = <<>> THEN <<>>
    ELSE insertString(sortStrings(SubSeq(s, 1, Len(s) - 1)), s[Len(s)])

RECURSIVE insertConflict(_, _)
insertConflict(s, e) ==
    IF s = <<>> THEN <<e>>
    ELSE IF StrLess(e.Key, Head(s).Key) THEN <<e>> \o s
    ELSE <<Head(s)>> \o insertConflict(Tail(s), e)

\* sort.Slice(result.Conflicts, ...) by Key
RECURSIVE sortConflicts(_)
sortConflicts(s) ==
    IF s = <<>> THEN <<>>
    ELSE insertConflict(sortConflicts(SubSeq(s, 1, Len(s) - 1)), s[Len(s)])

\* result.Merged = make(...), then every key of local is copied into it:
\* the values are copied, so a nested map is shared with local
copyLocal(h, l, merged) == (merged :> h[l]) @@ h

\* Merge(master, local, force) on heap h; merged is the address of the map
\* that make() returns.  The outcome is the returned Result and the heap.
Merge(h, m, l, force, order, merged) ==
    LET st == mergeInto([heap |-> copyLocal(h, l, merged), Added |-> <<>>, Matching |-> <<>>,
                         Conflicts |-> <<>>, Forced |-> <<>>,
                         LocalOnly |-> <<>>],
                        merged, m, l, <<>>, force, order)
    IN [heap |-> st.heap,
        result |-> [Merged    |-> merged,
                    Conflicts |-> sortConflicts(st.Conflicts),
                    Forced    |-> sortStrings(st.Forced),
                    Added     |-> sortStrings(st.Added),
                    Matching  |-> sortStrings(st.Matching),
                    LocalOnly |-> sortStrings(st.LocalOnly)]]

----------------------------------------------------------------------------
(* The state machine: two documents are loaded, then Merge is called. *)

\* the orders in which a range loop visits the keys: Go leaves the order
\* unspecified; ascending and descending put every two keys both ways round
Ascending == sortStrings(CHOOSE o \in [1..Cardinality(Keys) -> Keys] :
                           \A k \in Keys : \E i \in DOMAIN o : o[i] = k)
Orders == { Ascending, [ i \in DOMAIN Ascending |->
                           Ascending[Len(Ascending) + 1 - i] ] }

Init ==
    \E in \in InputPairs :
        /\ heap = loadJSON(in[1], "master") @@ loadJSON(in[2], "local")
        /\ master = Addr("master", 0, <<>>)
        /\ local = Addr("local", 0, <<>>)
        /\ calls = <<>>
        /\ fs = <<>> /\ sy = <<>>
        /\ disk = <<>> /\ rs = <<>>
        /\ cl = <<>> /\ cmd = Single

\* one call Merge(master, l, force); the call record keeps the heap the call
\* started from
DoMerge(l, force, order) ==
    LET out == Merge(heap, master, l, force, order,
                     Addr("merged", Len(calls) + 1, <<>>))
    IN /\ heap' = out.heap
       /\ calls' = Append(calls, [force |-> force, local |-> l,
                                  before |-> heap, result |-> out.result])
       /\ UNCHANGED <<master, local>>
       /\ UNCHANGED <<syncVars, runVars, cmdVars>>

\* run: Merge is called with the loaded master and local documents
MergeLocal ==
    /\ calls = <<>>
    /\ \E force \in BOOLEAN, order \in Orders : DoMerge(local, force, order)

\* the same master is merged again into the tree the previous call returned
MergeMerged ==
    /\ Len(calls) = 1
    /\ \E force \in BOOLEAN, order \in Orders :
         DoMerge(calls[Len(calls)].result.Merged, force, order)

Next == MergeLocal \/ MergeMerged

Spec == Init /\ [][Next]_vars

----------------------------------------------------------------------------
(* Vocabulary of the properties *)

\* the heap when call i returned
AfterCall(i) == IF i < Len(calls) THEN calls[i + 1].before ELSE heap

\* the maps reachable from the maps in S
RECURSIVE Reachable(_, _)
Reachable(h, S) ==
    LET step == S \cup UNION { { h[a][k].ref : k \in { x \in DOMAIN h[a] : IsMap(h[a][x]) } }
                               : a \in S }
    IN IF step = S THEN S ELSE Reachable(h, step)

\* v in heap h1 and w in heap h2 are the same JSON value
RECURSIVE SameValue(_, _, _, _)
SameValue(h1, v, h2, w) ==
    IF IsMap(v) /\ IsMap(w)
    THEN /\ DOMAIN h1[v.ref] = DOMAIN h2[w.ref]
         /\ \A k \in DOMAIN h1[v.ref] :
              SameValue(h1, h1[v.ref][k], h2, h2[w.ref][k])
    ELSE /\ ~IsMap(v)
         /\ ~IsMap(w)
         /\ v.s = w.s

\* the dot-qualified key of a path (a non-empty sequence of keys)
RECURSIVE QualifiedPath(_)
QualifiedPath(p) ==
    IF Len(p) = 1 THEN p[1]
    ELSE QualifiedPath(SubSeq(p, 1, Len(p) - 1)) \o <<Dot>> \o p[Len(p)]

\* the value at path p below map a
RECURSIVE ValAt(_, _, _)
ValAt(h, a, p) ==
    IF Len(p) = 1 THEN h[a][p[1]] ELSE ValAt(h, h[a][Head(p)].ref, Tail(p))

\* whether path p exists below map a
RECURSIVE HasPath(_, _, _)
HasPath(h, a, p) ==
    /\ Head(p) \in DOMAIN h[a]
    /\ \/ Len(p) = 1
       \/ /\ IsMap(h[a][Head(p)])
          /\ HasPath(h, h[a][Head(p)].ref, Tail(p))

\* the levels at which master map m and local map l both hold an object:
\* the roots, and every key under such a level that holds an object in both
RECURSIVE SharedLevels(_, _, _)
SharedLevels(h, m, l) ==
    { [path |-> <<>>, m |-> m, l |-> l] } \cup
    UNION { { [path |-> <<k>> \o x.path, m |-> x.m, l |-> x.l] :
                x \in SharedLevels(h, h[m][k].ref, h[l][k].ref) }
            : k \in { x \in DOMAIN h[m] \cap DOMAIN h[l] :
                        IsMap(h[m][x]) /\ IsMap(h[l][x]) } }

\* the entries of master at the shared levels, each with its place in local
MasterEntries(h, m, l) ==
    UNION { { [path |-> x.path \o <<k>>, k |-> k, m |-> x.m, l |-> x.l] :
                k \in DOMAIN h[x.m] } : x \in SharedLevels(h, m, l) }

\* the entries of local at the shared levels
LocalEntries(h, m, l) ==
    UNION { { [path |-> x.path \o <<k>>, k |-> k, m |-> x.m, l |-> x.l] :
                k \in DOMAIN h[x.l] } : x \in SharedLevels(h, m, l) }

MasterValue(h, e) == h[e.m][e.k]
LocalValue(h, e) == h[e.l][e.k]

\* a master entry is absent from local, an object in both trees, equal to
\* local's value, or different from it
Absent(h, e) == e.k \notin DOMAIN h[e.l]
Nested(h, e) ==
    ~Absent(h, e) /\ IsMap(MasterValue(h, e)) /\ IsMap(LocalValue(h, e))
Equal(h, e) ==
    /\ ~Absent(h, e)
    /\ ~Nested(h, e)
    /\ SameValue(h, MasterValue(h, e), h, LocalValue(h, e))
Differing(h, e) == ~Absent(h, e) /\ ~Nested(h, e) /\ ~Equal(h, e)

\* one side holds an object and the other does not
Mismatch(h, e) ==
    ~Absent(h, e) /\ IsMap(MasterValue(h, e)) # IsMap(LocalValue(h, e))

\* the number of times e occurs in the list s
Count(s, e) == Cardinality({ i \in DOMAIN s : s[i] = e })

\* the Conflict record that a differing entry calls for
ConflictOf(h, e) ==
    [Key |-> QualifiedPath(e.path), MasterValue |-> MasterValue(h, e),
     LocalValue |-> LocalValue(h, e)]

\* the first call has returned, and it was made with this force flag
Returned(force) == calls # <<>> /\ calls[1].force = force

----------------------------------------------------------------------------
(* C1: Merge never mutates its inputs: when a call returns, every map        *)
(* reachable from its master and local arguments holds what it held when    *)
(* the call was made.                                                       *)
C1_InputsNotMutated ==
    \A i \in DOMAIN calls :
      \A a \in Reachable(calls[i].before, {master, calls[i].local}) :
        AfterCall(i)[a] = calls[i].before[a]

(* C2: with force = false, every master entry that differs from local's     *)
(* value at the same path (the two not both objects) leaves local's value   *)
(* in the merged tree, and Conflicts holds one record (qualified path,      *)
(* master's value, local's value) for each such entry.                      *)
C2_ConflictKeepsLocal ==
    Returned(FALSE) =>
      LET h  == calls[1].before
          ha == AfterCall(1)
          r  == calls[1].result
          D  == { e \in MasterEntries(h, master, local) : Differing(h, e) }
      IN \A e \in D :
           /\ HasPath(ha, r.Merged, e.path)
           /\ SameValue(ha, ValAt(ha, r.Merged, e.path), h, LocalValue(h, e))
           /\ Count(r.Conflicts, ConflictOf(h, e))
                = Cardinality({ f \in D : ConflictOf(h, f) = ConflictOf(h, e) })

\* a call without force has returned on documents with a differing entry
C2_Witness ==
    /\ Returned(FALSE)
    /\ \E e \in MasterEntries(calls[1].before, master, local) :
         Differing(calls[1].before, e)

(* C3: force/non-force duality: on the same master and local, the keys of  *)
(* Conflicts without force are the keys of Forced with force; at each such  *)
(* entry the first merged tree holds local's value and the second master's; *)
(* Added, Matching and LocalOnly are the same in both results.              *)
C3_ForceDuality ==
    calls # <<>> =>
      \A order \in Orders :
        LET h    == calls[1].before
            dual == Merge(h, master, local, ~calls[1].force, order,
                          Addr("dual", 0, <<>>))
            rn   == IF calls[1].force THEN dual.result ELSE calls[1].result
            hn   == IF calls[1].force THEN dual.heap ELSE AfterCall(1)
            rf   == IF calls[1].force THEN calls[1].result ELSE dual.result
            hf   == IF calls[1].force THEN AfterCall(1) ELSE dual.heap
        IN /\ { rn.Conflicts[i].Key : i \in DOMAIN rn.Conflicts }
                = { rf.Forced[i] : i \in DOMAIN rf.Forced }
           /\ rn.Forced = <<>>
           /\ rf.Conflicts = <<>>
           /\ \A e \in MasterEntries(h, master, local) :
                Differing(h, e) =>
                  /\ QualifiedPath(e.path) \in
                       { rf.Forced[i] : i \in DOMAIN rf.Forced }
                  /\ SameValue(hn, ValAt(hn, rn.Merged, e.path),
                               h, LocalValue(h, e))
                  /\ SameValue(hf, ValAt(hf, rf.Merged, e.path),
                               h, MasterValue(h, e))
           /\ rn.Added = rf.Added
           /\ rn.Matching = rf.Matching
           /\ rn.LocalOnly = rf.LocalOnly

\* a call with force has returned on documents with a differing entry
C3_Witness ==
    /\ Returned(TRUE)
    /\ calls[1].result.Forced # <<>>
    /\ \E e \in MasterEntries(calls[1].before, master, local) :
         Differing(calls[1].before, e)

\* every path of the tree below map a, at any depth
RECURSIVE AllPaths(_, _)
AllPaths(h, a) ==
    UNION { { <<k>> } \cup
            ( IF IsMap(h[a][k])
              THEN { <<k>> \o p : p \in AllPaths(h, h[a][k].ref) }
              ELSE {} )
            : k \in DOMAIN h[a] }

\* a path that ends in a value without members
IsLeaf(h, a, p) ==
    LET v == ValAt(h, a, p) IN IsMap(v) => DOMAIN h[v.ref] = {}

ConflictKeys(r) == [ i \in DOMAIN r.Conflicts |-> r.Conflicts[i].Key ]

\* the number of the lists Added, Matching, Conflicts, Forced that hold q
ListsHolding(r, q) ==
    Cardinality({ n \in 1..4 :
        \E i \in DOMAIN <<r.Added, r.Matching, ConflictKeys(r), r.Forced>>[n] :
          <<r.Added, r.Matching, ConflictKeys(r), r.Forced>>[n][i] = q })

(* C4 as stated: every qualified key of master, at any depth, is in exactly *)
(* one of Added, Matching, Conflicts, Forced, and the four lists together   *)
(* have as many entries as master has leaves.                               *)
C4_EveryMasterKeyClassified ==
    calls # <<>> =>
      LET h == calls[1].before
          r == calls[1].result
          P == AllPaths(h, master)
      IN /\ \A p \in P : ListsHolding(r, QualifiedPath(p)) = 1
         /\ Len(r.Added) + Len(r.Matching) + Len(r.Conflicts) + Len(r.Forced)
              = Cardinality({ p \in P : IsLeaf(h, master, p) })

(* C4 amended: the master entries Merge classifies are those at the levels  *)
(* where master and local both hold an object, except the entries that hold *)
(* an object in both trees.  Each is recorded once: in Added when absent    *)
(* from local, in Matching when equal, in Conflicts (force = false) or      *)
(* Forced (force = true) when different; the four lists hold nothing else.  *)
C4_VisitedEntriesClassified ==
    calls # <<>> =>
      LET h == calls[1].before
          r == calls[1].result
          E == MasterEntries(h, master, local)
          N(q, Class(_, _)) ==
            Cardinality({ e \in E : QualifiedPath(e.path) = q /\ Class(h, e) })
          Q == { QualifiedPath(e.path) : e \in E }
      IN /\ \A q \in Q :
              /\ Count(r.Added, q) = N(q, Absent)
              /\ Count(r.Matching, q) = N(q, Equal)
              /\ Count(ConflictKeys(r), q)
                   = IF calls[1].force THEN 0 ELSE N(q, Differing)
              /\ Count(r.Forced, q)
                   = IF calls[1].force THEN N(q, Differing) ELSE 0
         /\ Len(r.Added) + Len(r.Matching) + Len(r.Conflicts) + Len(r.Forced)
              = Cardinality({ e \in E : ~Nested(h, e) })

\* master holds a section with members that local lacks altogether, and a
\* section that local holds too
C4_Witness ==
    /\ calls # <<>>
    /\ \E e, f \in MasterEntries(calls[1].before, master, local) :
         /\ Absent(calls[1].before, e)
         /\ IsMap(MasterValue(calls[1].before, e))
         /\ DOMAIN calls[1].before[MasterValue(calls[1].before, e).ref] # {}
         /\ Nested(calls[1].before, f)

(* C5: the five classification lists are mutually exclusive and free of     *)
(* duplicates: no qualified key is in two of Added, Matching, Conflicts,    *)
(* Forced, LocalOnly or twice in one of them, also when keys contain '.'.   *)
C5_ListsMutuallyExclusive ==
    calls # <<>> =>
      LET r == calls[1].result
          L == <<r.Added, r.Matching, ConflictKeys(r), r.Forced, r.LocalOnly>>
      IN /\ \A n \in DOMAIN L : \A i, j \in DOMAIN L[n] :
              i # j => L[n][i] # L[n][j]
         /\ \A n, o \in DOMAIN L : n # o =>
              \A i \in DOMAIN L[n], j \in DOMAIN L[o] : L[n][i] # L[o][j]

(* C6 as stated: every key that only local holds, at any depth, is still   *)
(* in the merged tree with its value and is listed in LocalOnly, with and   *)
(* without force.                                                           *)
C6_EveryLocalOnlyKeyKept ==
    calls # <<>> =>
      LET h  == calls[1].before
          ha == AfterCall(1)
          r  == calls[1].result
      IN \A p \in AllPaths(h, local) :
           ~HasPath(h, master, p) =>
             /\ HasPath(ha, r.Merged, p)
             /\ SameValue(ha, ValAt(ha, r.Merged, p), h, ValAt(h, local, p))
             /\ Count(r.LocalOnly, QualifiedPath(p)) > 0

(* C6 amended: every key that local holds and master lacks at a level where *)
(* all ancestor keys hold an object in both trees is still in the merged    *)
(* tree with its value unchanged and is listed in LocalOnly, with and       *)
(* without force.                                                           *)
C6_LocalOnlyPreserved ==
    calls # <<>> =>
      LET h  == calls[1].before
          ha == AfterCall(1)
          r  == calls[1].result
      IN \A e \in LocalEntries(h, master, local) :
           e.k \notin DOMAIN h[e.m] =>
             /\ HasPath(ha, r.Merged, e.path)
             /\ SameValue(ha, ValAt(ha, r.Merged, e.path), h, LocalValue(h, e))
             /\ Count(r.LocalOnly, QualifiedPath(e.path)) > 0

\* a call with force has returned on documents where a section of both has
\* a member only in local
C6_Witness ==
    /\ Returned(TRUE)
    /\ \E e \in LocalEntries(calls[1].before, master, local) :
         /\ Len(e.path) > 1
         /\ e.k \notin DOMAIN calls[1].before[e.m]

(* C7: idempotence without force: merging the same master into the tree a   *)
(* first Merge returned adds nothing, reports conflicts for the same keys   *)
(* and returns a tree equal to the first one.                               *)
C7_Idempotent ==
    ( /\ Len(calls) = 2
      /\ ~calls[1].force
      /\ ~calls[2].force ) =>
        LET r1 == calls[1].result
            r2 == calls[2].result
        IN /\ r2.Added = <<>>
           /\ { r2.Conflicts[i].Key : i \in DOMAIN r2.Conflicts }
                = { r1.Conflicts[i].Key : i \in DOMAIN r1.Conflicts }
           /\ SameValue(heap, Ref(r2.Merged), calls[2].before, Ref(r1.Merged))

\* the first call added keys and reported conflicts, and the second call has
\* returned
C7_Witness ==
    /\ Len(calls) = 2
    /\ ~calls[1].force
    /\ ~calls[2].force
    /\ calls[1].result.Added # <<>>
    /\ calls[1].result.Conflicts # <<>>

(* C8: a type mismatch is an ordinary conflict: where one of master's and   *)
(* local's values is an object and the other is not, Merge does not merge   *)
(* into the object; without force local's value stays and one Conflict is   *)
(* recorded for the entry, with force master's value replaces local's and   *)
(* the key is recorded in Forced.                                           *)
C8_TypeMismatchIsConflict ==
    calls # <<>> =>
      LET h  == calls[1].before
          ha == AfterCall(1)
          r  == calls[1].result
      IN \A e \in MasterEntries(h, master, local) :
           Mismatch(h, e) =>
             /\ HasPath(ha, r.Merged, e.path)
             /\ \A v \in { MasterValue(h, e), LocalValue(h, e) } :
                  IsMap(v) => ha[v.ref] = h[v.ref]
             /\ IF calls[1].force
                THEN /\ ValAt(ha, r.Merged, e.path) = MasterValue(h, e)
                     /\ Count(r.Forced, QualifiedPath(e.path)) > 0
                     /\ r.Conflicts = <<>>
                ELSE /\ ValAt(ha, r.Merged, e.path) = LocalValue(h, e)
                     /\ Count(r.Conflicts, ConflictOf(h, e)) = 1
                     /\ r.Forced = <<>>

\* a call with force has returned on documents where local holds an object
\* and master a scalar at the same key
C8_Witness ==
    /\ Returned(TRUE)
    /\ \E e \in MasterEntries(calls[1].before, master, local) :
         /\ Mismatch(calls[1].before, e)
         /\ IsMap(LocalValue(calls[1].before, e))
         /\ DOMAIN calls[1].before[LocalValue(calls[1].before, e).ref] # {}

(* C9: nested recursion: where master and local both hold an object, the    *)
(* merged tree holds an object with the keys of both; a sub-key only in     *)
(* master is in Added under the path key.subkey with master's value, a      *)
(* sub-key only in local keeps its value, a sub-key of both is classified   *)
(* under key.subkey, and no Conflict is recorded for the two objects.       *)
C9_NestedRecursion ==
    calls # <<>> =>
      LET h  == calls[1].before
          ha == AfterCall(1)
          r  == calls[1].result
      IN \A e \in MasterEntries(h, master, local) :
           Nested(h, e) =>
             LET m == MasterValue(h, e).ref
                 l == LocalValue(h, e).ref
                 sub(k) == e.path \o <<k>>
             IN /\ HasPath(ha, r.Merged, e.path)
                /\ IsMap(ValAt(ha, r.Merged, e.path))
                /\ DOMAIN ha[ValAt(ha, r.Merged, e.path).ref]
                     = DOMAIN h[m] \cup DOMAIN h[l]
                /\ \A k \in DOMAIN h[m] \ DOMAIN h[l] :
                     /\ Count(r.Added, QualifiedPath(sub(k))) > 0
                     /\ SameValue(ha, ValAt(ha, r.Merged, sub(k)), h, h[m][k])
                /\ \A k \in DOMAIN h[l] \ DOMAIN h[m] :
                     SameValue(ha, ValAt(ha, r.Merged, sub(k)), h, h[l][k])
                /\ \A k \in DOMAIN h[m] \cap DOMAIN h[l] :
                     \/ IsMap(h[m][k]) /\ IsMap(h[l][k])
                     \/ Count(IF SameValue(h, h[m][k], h, h[l][k])
                                THEN r.Matching
                                ELSE IF calls[1].force THEN r.Forced
                                ELSE ConflictKeys(r),
                              QualifiedPath(sub(k))) > 0
                /\ \A i \in DOMAIN r.Conflicts :
                     ~( /\ r.Conflicts[i].Key = QualifiedPath(e.path)
                        /\ IsMap(r.Conflicts[i].MasterValue)
                        /\ IsMap(r.Conflicts[i].LocalValue) )

\* both documents hold a section at the same key, with a member only in
\* master's and a member only in local's
C9_Witness ==
    /\ calls # <<>>
    /\ \E e \in MasterEntries(calls[1].before, master, local) :
         /\ Nested(calls[1].before, e)
         /\ LET h == calls[1].before
                m == DOMAIN h[MasterValue(h, e).ref]
                l == DOMAIN h[LocalValue(h, e).ref]
            IN m \ l # {} /\ l \ m # {}

(* C10: a master key absent from local at its level is adopted whole: the   *)
(* merged tree holds master's value there and Added holds one entry for it  *)
(* and none for the keys inside the adopted value; for an empty local,      *)
(* Added is exactly master's top-level keys and the merged tree equals      *)
(* master.                                                                  *)
C10_AbsentKeyAdoptedWhole ==
    calls # <<>> =>
      LET h  == calls[1].before
          ha == AfterCall(1)
          r  == calls[1].result
          A  == { e \in MasterEntries(h, master, local) : Absent(h, e) }
      IN /\ \A e \in A :
              /\ HasPath(ha, r.Merged, e.path)
              /\ SameValue(ha, ValAt(ha, r.Merged, e.path), h, MasterValue(h, e))
              /\ Count(r.Added, QualifiedPath(e.path))
                   = Cardinality({ f \in A :
                       QualifiedPath(f.path) = QualifiedPath(e.path) })
         /\ Len(r.Added) = Cardinality(A)
         /\ DOMAIN h[local] = {} =>
              /\ { r.Added[i] : i \in DOMAIN r.Added } = DOMAIN h[master]
              /\ Len(r.Added) = Cardinality(DOMAIN h[master])
              /\ SameValue(ha, Ref(r.Merged), h, Ref(master))

\* local is empty and master holds a section with a member
C10_Witness ==
    /\ calls # <<>>
    /\ DOMAIN calls[1].before[local] = {}
    /\ \E e \in MasterEntries(calls[1].before, master, local) :
         /\ IsMap(MasterValue(calls[1].before, e))
         /\ DOMAIN calls[1].before[MasterValue(calls[1].before, e).ref] # {}

----------------------------------------------------------------------------
(***************************************************************************)
(* The file system of dirsync.  A path is a sequence of names, a name is a *)
(* byte string, and the file system maps the paths that exist to what is   *)
(* there.  The root directory <<>> always exists.                          *)
(***************************************************************************)

\* names of directory entries: "a", "b" at the top of a tree; "d", "f",
\* "g", "h", "l" below
NameA == <<97>>
NameB == <<98>>
NameD == <<100>>
NameF == <<102>>
NameG == <<103>>
NameH == <<104>>
NameL == <<108>>

\* the source and destination directories handed to Sync: those of the
\* agents, and those of the skills when the all command has come to them; a
\* directory outside all of them, and a path at which nothing exists
AgentsSrc == << <<115, 114, 99>> >>
AgentsDst == << <<110>>, <<100, 115, 116>> >>
SkillsSrc == << <<115, 107, 115>> >>
SkillsDst == << <<110>>, <<100, 115, 107>> >>
SrcRoot == IF cmd.stage = "skills" THEN SkillsSrc ELSE AgentsSrc
DstRoot == IF cmd.stage = "skills" THEN SkillsDst ELSE AgentsDst
ExtDir == << <<101, 120, 116>> >>
Gone == << <<103, 111, 110, 101>> >>

File(data, mode) ==
    [kind |-> "file", data |-> data, mode |-> mode, target |-> <<>>]
Dir(mode) ==
    [kind |-> "dir", data |-> <<>>, mode |-> mode, target |-> <<>>]
Symlink(target) ==
    [kind |-> "symlink", data |-> <<>>, mode |-> "0777", target |-> target]
Socket ==
    [kind |-> "socket", data |-> <<>>, mode |-> "0644", target |-> <<>>]

\* the bytes of the source file at relative path rel, in the chunks io.Copy
\* writes them, and the bytes of a file that is at the destination already
Content(rel) == << <<rel, 1>>, <<rel, 2>> >>
OldContent(rel) == << <<rel, 0>> >>

Parent(p) == SubSeq(p, 1, Len(p) - 1)
Base(p) == p[Len(p)]

\* the path the names of rest lead to from cur, symbolic links followed
RECURSIVE Walk(_, _, _)
Walk(f, cur, rest) ==
    IF rest = <<>> THEN cur
    ELSE LET q == Append(cur, Head(rest))
         IN Walk(f,
                 IF q \in DOMAIN f /\ f[q].kind = "symlink"
                 THEN f[q].target ELSE q,
                 Tail(rest))

\* what a path names for os.Stat (last name followed too) and for os.Lstat,
\* os.Rename and os.Remove (last name taken as it is)
Real(f, p) == Walk(f, <<>>, p)
LReal(f, p) == IF p = <<>> THEN p ELSE Append(Real(f, Parent(p)), Base(p))

DirAt(f, q) == q = <<>> \/ (q \in DOMAIN f /\ f[q].kind = "dir")

\* os.Lstat(p) succeeds
Lstat(f, p) == LReal(f, p) \in DOMAIN f

RECURSIVE SeqOf(_)
SeqOf(S) == IF S = {} THEN <<>>
            ELSE LET x == CHOOSE x \in S : TRUE
                 IN <<x>> \o SeqOf(S \ {x})

\* os.ReadDir(p): the names in the directory, sorted by name
ReadDir(f, p) ==
    LET q == Real(f, p)
    IN IF ~DirAt(f, q)
       THEN [err |-> IF q \in DOMAIN f THEN "ENOTDIR" ELSE "ENOENT",
             names |-> <<>>]
       ELSE [err |-> "",
             names |-> sortStrings(SeqOf({ Base(x) : x \in
                         { y \in DOMAIN f : /\ Len(y) = Len(q) + 1
                                            /\ Parent(y) = q } }))]

\* os.Mkdir(p, mode)
Mkdir(f, p, mode) ==
    LET q == LReal(f, p)
    IN IF q \in DOMAIN f THEN [err |-> "EEXIST", fs |-> f]
       ELSE IF ~DirAt(f, Parent(q)) THEN [err |-> "ENOENT", fs |-> f]
       ELSE [err |-> "", fs |-> (q :> Dir(mode)) @@ f]

\* os.MkdirAll(p, mode): nothing to do when p is a directory (a link to one
\* included); otherwise the parents, then p itself
RECURSIVE MkdirAll(_, _, _)
MkdirAll(f, p, mode) ==
    IF p = <<>> \/ Real(f, p) \in DOMAIN f
    THEN [err |-> IF DirAt(f, Real(f, p)) THEN "" ELSE "ENOTDIR", fs |-> f]
    ELSE LET up == MkdirAll(f, Parent(p), mode)
         IN IF up.err # "" THEN up ELSE Mkdir(up.fs, p, mode)

\* the name os.CreateTemp picks for the pattern ".copy-*"
TempName == <<46, 99, 111, 112, 121, 45, 49>>

\* os.CreateTemp(Dir(tmp), Base(tmp)): a new empty file of mode 0600
CreateTemp(f, tmp) ==
    IF ~DirAt(f, Real(f, Parent(tmp))) THEN [err |-> "ENOENT", fs |-> f]
    ELSE [err |-> "", fs |-> (LReal(f, tmp) :> File(<<>>, "0600")) @@ f]

\* os.Rename(old, new) of a file: new is replaced unless it is a directory
Rename(f, old, new) ==
    LET o == LReal(f, old)
        n == LReal(f, new)
    IN IF n \in DOMAIN f /\ f[n].kind = "dir" THEN [err |-> "EEXIST", fs |-> f]
       ELSE IF ~DirAt(f, Parent(n)) \/ o \notin DOMAIN f
       THEN [err |-> "ENOENT", fs |-> f]
       ELSE [err |-> "",
             fs |-> [x \in (DOMAIN f \ {o}) \cup {n} |->
                       IF x = n THEN f[o] ELSE f[x]]]

\* os.Remove(p) of a file
Remove(f, p) == [x \in DOMAIN f \ {LReal(f, p)} |-> f[x]]

----------------------------------------------------------------------------
(***************************************************************************)
(* dirsync.Sync as a step machine.  sy.tasks is what is left to do, first  *)
(* thing first: the top-level entries still to visit and, in front of      *)
(* them, the files and directories of the subtree being copied and the     *)
(* recording of the entry they belong to.                                  *)
(***************************************************************************)

Task(op, rel, existed) == [op |-> op, rel |-> rel, existed |-> existed]

NoResult == [Copied |-> <<>>, Skipped |-> <<>>, Forced |-> <<>>]

\* before Sync is called.  before is the file system at the call, seen the
\* top-level names looked at so far, failed the entry whose copy failed,
\* fault whether the failure was one of the environment; again tells that
\* this is the call made after a call that failed, and prev is that call
Idle == [status |-> "idle", force |-> FALSE, before |-> <<>>,
         tasks |-> <<>>, pc |-> "open", tmp |-> <<>>, res |-> NoResult,
         seen |-> <<>>, failed |-> <<>>, fault |-> FALSE,
         again |-> FALSE, prev |-> <<>>]

\* Sync up to its loop: a missing src is success with nothing done
syncStartMkdirFirst(f, force) ==
    LET made == MkdirAll(f, DstRoot, "0750")
    IN [fs |-> made.fs,
        sy |-> [Idle EXCEPT !.force = force, !.before = f, !.status = "ok"]]

syncStart(f, force) ==
    LET entries == ReadDir(f, SrcRoot)
        made == MkdirAll(f, DstRoot, "0750")
        s == [Idle EXCEPT !.force = force, !.before = f]
    IN IF entries.err = "ENOENT"
       THEN [fs |-> f, sy |-> [s EXCEPT !.status = "ok"]]
       ELSE IF entries.err # ""
       THEN [fs |-> f, sy |-> [s EXCEPT !.status = "error"]]
       ELSE IF made.err \notin {"", "EEXIST"}
       THEN [fs |-> made.fs, sy |-> [s EXCEPT !.status = "error"]]
       ELSE [fs |-> made.fs,
             sy |-> [s EXCEPT !.status = "running",
                              !.tasks = [i \in DOMAIN entries.names |->
                                  Task("entry", <<entries.names[i]>>, FALSE)]]]

\* the test runSync makes on dstDir before anything else
dstIsSymlinkStat(f) ==
    Real(f, DstRoot) \in DOMAIN f /\ f[Real(f, DstRoot)].kind = "symlink"

dstIsSymlink(f) ==
    Lstat(f, DstRoot) /\ f[LReal(f, DstRoot)].kind = "symlink"

\* runSync up to the report it prints: a dstDir that is a symbolic link is
\* skipped with a warning and Sync is not called
runSync(f, force) ==
    IF dstIsSymlink(f)
    THEN [fs |-> f,
          sy |-> [Idle EXCEPT !.force = force, !.before = f,
                              !.status = "linked"]]
    ELSE syncStart(f, force)

\* return res, err: the entry being processed is the one that failed
returnErrRecorded(s) ==
    [s EXCEPT !.status = "error", !.failed = Head(s.tasks).rel,
              !.tmp = <<>>,
              !.res.Copied = Append(@, Head(s.tasks).rel[1])]

returnErr(s) ==
    [s EXCEPT !.status = "error", !.failed = Head(s.tasks).rel,
              !.tmp = <<>>]

\* exists := statErr == nil, of os.Lstat(dstPath)
dstExistsStat(f, dstPath) == Real(f, dstPath) \in DOMAIN f

dstExists(f, dstPath) == Lstat(f, dstPath)

\* one round of Sync's loop up to the copy: skip, or hand the entry to
\* copyFile or copyDir, or pass over an entry of another type
visitEntry(f, s) ==
    LET t == Head(s.tasks)
        name == t.rel[1]
        exists == dstExists(f, DstRoot \o t.rel)
        kind == f[LReal(f, SrcRoot \o t.rel)].kind
        s1 == [s EXCEPT !.seen = Append(@, name)]
    IN IF exists /\ ~s.force
       THEN [s1 EXCEPT !.res.Skipped = Append(@, name), !.tasks = Tail(@)]
       ELSE IF kind = "file"
       THEN [s1 EXCEPT !.tasks = << Task("file", t.rel, exists),
                                    Task("record", t.rel, exists) >>
                                 \o Tail(@)]
       ELSE IF kind = "dir"
       THEN [s1 EXCEPT !.tasks = << Task("dir", t.rel, exists),
                                    Task("record", t.rel, exists) >>
                                 \o Tail(@)]
       ELSE [s1 EXCEPT !.tasks = Tail(@)]

\* what copyDir goes on to copy: the directories and the regular files
copyDirFilesOnly(kind) == kind = "file"

copyDirCopies(kind) == kind \in {"dir", "file"}

\* copyDir up to its loop: the entries are read, dst is made, and the
\* entries to copy come next, in name order
copyDir(f, s) ==
    LET t == Head(s.tasks)
        entries == ReadDir(f, SrcRoot \o t.rel)
        made == MkdirAll(f, DstRoot \o t.rel, "0750")
        kindOf(n) == f[Append(Real(f, SrcRoot \o t.rel), n)].kind
        subs == SelectSeq(entries.names, LAMBDA n : copyDirCopies(kindOf(n)))
    IN IF entries.err # "" THEN [fs |-> f, sy |-> returnErr(s)]
       ELSE IF made.err \notin {"", "EEXIST"}
       THEN [fs |-> made.fs, sy |-> returnErr(s)]
       ELSE [fs |-> made.fs,
             sy |-> [s EXCEPT !.tasks =
                       [i \in DOMAIN subs |->
                          Task(IF kindOf(subs[i]) = "dir" THEN "dir"
                               ELSE "file",
                               Append(t.rel, subs[i]), FALSE)]
                       \o Tail(@)]]

\* where copyFile writes the bytes: a new file next to dst
tempFileIsDst(dst) == dst

tempFile(dst) == Append(Parent(dst), TempName)

\* the deferred os.Remove(tmpName) of copyFile
cleanup(f, s) == IF s.tmp # <<>> THEN Remove(f, s.tmp) ELSE f

\* copyFile: src is opened and the temporary file is created
copyFileOpen(f, s) ==
    LET t == Head(s.tasks)
        tmp == tempFile(DstRoot \o t.rel)
        made == CreateTemp(f, tmp)
    IN IF Real(f, SrcRoot \o t.rel) \notin DOMAIN f \/ made.err # ""
       THEN [fs |-> f, sy |-> returnErr(s)]
       ELSE [fs |-> made.fs, sy |-> [s EXCEPT !.tmp = tmp, !.pc = "chmod"]]

\* copyFile: tmp.Chmod(info.Mode())
copyFileChmod(f, s) ==
    LET src == Real(f, SrcRoot \o Head(s.tasks).rel)
    IN [fs |-> [f EXCEPT ![LReal(f, s.tmp)].mode = f[src].mode],
        sy |-> [s EXCEPT !.pc = "copy"]]

\* the bytes io.Copy has still to write
Unwritten(f, s) ==
    LET src == f[Real(f, SrcRoot \o Head(s.tasks).rel)].data
        done == Len(f[LReal(f, s.tmp)].data)
    IN SubSeq(src, done + 1, Len(src))

\* copyFile: io.Copy writes the next bytes to the temporary file
copyFileCopy(f, s) ==
    [fs |-> [f EXCEPT ![LReal(f, s.tmp)].data = Append(@, Head(Unwritten(f, s)))],
     sy |-> s]

\* copyFile: the temporary file is closed and renamed to dst
copyFileRename(f, s) ==
    LET moved == Rename(f, s.tmp, DstRoot \o Head(s.tasks).rel)
    IN IF moved.err # ""
       THEN [fs |-> cleanup(f, s), sy |-> returnErr(s)]
       ELSE [fs |-> moved.fs,
             sy |-> [s EXCEPT !.tasks = Tail(@), !.tmp = <<>>, !.pc = "open"]]

\* the end of a round of Sync's loop: the name goes to Forced or to Copied
recordEntry(s) ==
    LET t == Head(s.tasks)
    IN IF t.existed
       THEN [s EXCEPT !.res.Forced = Append(@, t.rel[1]), !.tasks = Tail(@)]
       ELSE [s EXCEPT !.res.Copied = Append(@, t.rel[1]), !.tasks = Tail(@)]

\* after the loop: the lists are sorted and returned
syncReturn(s) ==
    [s EXCEPT !.status = "ok",
              !.res = [Copied |-> sortStrings(s.res.Copied),
                       Skipped |-> sortStrings(s.res.Skipped),
                       Forced |-> sortStrings(s.res.Forced)]]

----------------------------------------------------------------------------
(* The trees Sync is started on *)

\* the tree with relative paths made paths under root
Under(root, tree) ==
    [p \in { root \o r : r \in DOMAIN tree } |->
       tree[SubSeq(p, Len(root) + 1, Len(p))]]

NewFile(rel) == rel :> File(Content(rel), "0644")
OldFile(rel) == rel :> File(OldContent(rel), "0600")

\* what there can be under one name of the source directory: nothing, a
\* regular file, a directory (empty, with a file, or with a nested directory
\* and a symbolic link), a symbolic link or a socket
SrcEntries(n) ==
    { <<>>,
      NewFile(<<n>>),
      <<n>> :> Dir("0755"),
      (<<n>> :> Dir("0755")) @@ NewFile(<<n, NameF>>),
      (<<n>> :> Dir("0755")) @@ (<<n, NameD>> :> Dir("0755"))
         @@ NewFile(<<n, NameD, NameG>>) @@ (<<n, NameL>> :> Symlink(ExtDir)),
      <<n>> :> Symlink(ExtDir),
      <<n>> :> Socket }

\* what there can be under the same name of the destination directory:
\* nothing, a regular file, a directory with two files, a symbolic link to
\* a directory or a broken symbolic link
DstEntries(n) ==
    { <<>>,
      OldFile(<<n>>),
      (<<n>> :> Dir("0750")) @@ OldFile(<<n, NameF>>) @@ OldFile(<<n, NameH>>),
      <<n>> :> Symlink(ExtDir),
      <<n>> :> Symlink(Gone) }

\* src and dst may each be missing; dst is missing together with its parent,
\* or is itself a symbolic link to a directory or a broken one
Trees ==
    { (ExtDir :> Dir("0755")) @@ src @@ dst :
        src \in {<<>>} \cup
                { (SrcRoot :> Dir("0755")) @@ Under(SrcRoot, a @@ b) :
                    a \in SrcEntries(NameA), b \in SrcEntries(NameB) },
        dst \in {<<>>} \cup
                { (Parent(DstRoot) :> Dir("0755")) @@ (DstRoot :> Dir("0750"))
                    @@ Under(DstRoot, a @@ b) :
                    a \in DstEntries(NameA), b \in DstEntries(NameB) } \cup
                { (Parent(DstRoot) :> Dir("0755")) @@ (DstRoot :> Symlink(t)) :
                    t \in {ExtDir, Gone} } }

SyncInit ==
    /\ cl = <<>> /\ cmd = Single
    /\ fs \in Trees
    /\ sy = Idle
    /\ heap = <<>> /\ master = Nil /\ local = Nil /\ calls = <<>>
    /\ disk = <<>> /\ rs = <<>>

Running(op) ==
    /\ sy.status = "running"
    /\ sy.tasks # <<>>
    /\ Head(sy.tasks).op = op

Step(out) ==
    /\ fs' = out.fs
    /\ sy' = out.sy
    /\ UNCHANGED <<mergeVars, runVars, cmdVars>>

\* runSync(src, dst, force) is called, and with it Sync(src, dst, force)
SyncCall ==
    /\ sy.status = "idle"
    /\ cmd.stage = "single"
    /\ \E force \in BOOLEAN : Step(runSync(fs, force))

\* the command is run once more after a run that failed
SyncAgain ==
    /\ sy.status = "error"
    /\ ~sy.again
    /\ \E force \in BOOLEAN :
         LET out == runSync(fs, force)
         IN Step([fs |-> out.fs,
                  sy |-> [out.sy EXCEPT !.again = TRUE, !.prev = sy]])

VisitEntry ==
    /\ Running("entry")
    /\ Step([fs |-> fs, sy |-> visitEntry(fs, sy)])

CopyDir ==
    /\ Running("dir")
    /\ Step(copyDir(fs, sy))

CopyFileOpen ==
    /\ Running("file") /\ sy.pc = "open"
    /\ Step(copyFileOpen(fs, sy))

CopyFileChmod ==
    /\ Running("file") /\ sy.pc = "chmod"
    /\ Step(copyFileChmod(fs, sy))

CopyFileCopy ==
    /\ Running("file") /\ sy.pc = "copy"
    /\ Unwritten(fs, sy) # <<>>
    /\ Step(copyFileCopy(fs, sy))

CopyFileRename ==
    /\ Running("file") /\ sy.pc = "copy"
    /\ Unwritten(fs, sy) = <<>>
    /\ Step(copyFileRename(fs, sy))

RecordEntry ==
    /\ Running("record")
    /\ Step([fs |-> fs, sy |-> recordEntry(sy)])

SyncReturn ==
    /\ sy.status = "running"
    /\ sy.tasks = <<>>
    /\ Step([fs |-> fs, sy |-> syncReturn(sy)])

\* the system call about to be made fails (no permission, no space, an I/O
\* error): the deferred removal runs and Sync returns the error
SyncFail ==
    /\ sy.status = "running"
    /\ sy.tasks # <<>>
    /\ Head(sy.tasks).op \in {"entry", "dir", "file"}
    /\ Step([fs |-> cleanup(fs, sy),
             sy |-> [returnErr(sy) EXCEPT !.fault = TRUE]])

SyncNext ==
    \/ SyncCall
    \/ SyncAgain
    \/ VisitEntry
    \/ CopyDir
    \/ CopyFileOpen
    \/ CopyFileChmod
    \/ CopyFileCopy
    \/ CopyFileRename
    \/ RecordEntry
    \/ SyncReturn
    \/ SyncFail

SyncSpec == SyncInit /\ [][SyncNext]_vars

----------------------------------------------------------------------------
(* Vocabulary of the properties of Sync *)

IsUnder(p, root) == Len(p) >= Len(root) /\ SubSeq(p, 1, Len(root)) = root

\* what there is at root and below it
Below(f, root) == [x \in { y \in DOMAIN f : IsUnder(y, root) } |-> f[x]]

\* the destination entry of a name with everything below it, the target of
\* a symbolic link included
DstEntry(f, n) ==
    LET p == Append(DstRoot, n)
    IN IF p \in DOMAIN f /\ f[p].kind = "symlink"
       THEN Below(f, p) @@ Below(f, f[p].target)
       ELSE Below(f, p)

Holds(list, n) == \E i \in DOMAIN list : list[i] = n

\* the names of the entries of src when Sync was called
SrcNames == IF SrcRoot \in DOMAIN sy.before
            THEN { Base(x) : x \in { y \in DOMAIN sy.before :
                                       /\ Len(y) = Len(SrcRoot) + 1
                                       /\ Parent(y) = SrcRoot } }
            ELSE {}

SrcKind(n) == sy.before[Append(SrcRoot, n)].kind

\* the name existed under dst when Sync was called
DstHad(n) == Append(DstRoot, n) \in DOMAIN sy.before

SyncReturned == sy.status \in {"ok", "error"}

\* runSync has called Sync
SyncCalled == sy.status \notin {"idle", "linked"}

\* every regular file and directory of the source subtree of name n is at
\* the same relative path under dst, the files with all their bytes
Arrived(n) ==
    \A x \in DOMAIN sy.before :
        /\ IsUnder(x, Append(SrcRoot, n))
        /\ sy.before[x].kind \in {"file", "dir"}
        => LET p == Real(fs, DstRoot \o SubSeq(x, Len(SrcRoot) + 1, Len(x)))
           IN /\ p \in DOMAIN fs
              /\ fs[p].kind = sy.before[x].kind
              /\ fs[p].kind = "file" => fs[p].data = sy.before[x].data

C12_ForceOverwritesAnyKind ==
    SyncReturned /\ sy.force /\ ~sy.fault =>
        \A n \in SrcNames :
            DstHad(n) /\ SrcKind(n) \in {"file", "dir"} =>
                /\ sy.status = "ok"
                /\ Arrived(n)
                /\ Holds(sy.res.Forced, n)
                /\ ~Holds(sy.res.Copied, n)
                /\ ~Holds(sy.res.Skipped, n)

C14_NewEntriesCopied ==
    sy.status = "ok" /\ SrcRoot \in DOMAIN sy.before =>
        /\ \A i \in 1..Len(DstRoot) : DirAt(fs, SubSeq(DstRoot, 1, i))
        /\ \A n \in SrcNames :
             ~DstHad(n) /\ SrcKind(n) \in {"file", "dir"} =>
                 /\ Holds(sy.res.Copied, n)
                 /\ Arrived(n)

\* Sync has returned without an error, dst and its parent were missing, a
\* regular file and a directory with a nested directory were copied
C14_Witness ==
    /\ sy.status = "ok"
    /\ DstRoot \notin DOMAIN sy.before /\ Parent(DstRoot) \notin DOMAIN sy.before
    /\ sy.res.Copied = <<NameA, NameB>>
    /\ SrcKind(NameA) = "file"
    /\ fs[Append(DstRoot, NameA)].data = Content(<<NameA>>)
    /\ DstRoot \o <<NameB, NameD, NameG>> \in DOMAIN fs

\* C15.  Source entries that are neither regular files nor directories are
\* ignored: for every destination state and both force values the name is
\* in none of Copied, Skipped and Forced and nothing is written for it.
C15_SpecialEntriesIgnored ==
    SyncReturned =>
        \A n \in SrcNames :
            SrcKind(n) \notin {"file", "dir"} =>
                /\ ~Holds(sy.res.Copied, n)
                /\ ~Holds(sy.res.Skipped, n)
                /\ ~Holds(sy.res.Forced, n)
                /\ Below(fs, Append(DstRoot, n))
                     = Below(sy.before, Append(DstRoot, n))

\* the path under src or dst without the root
RelOf(x, root) == SubSeq(x, Len(root) + 1, Len(x))

\* file p holds all the bytes of the source file it is the copy of
HoldsSource(p) ==
    \E x \in DOMAIN sy.before :
        /\ IsUnder(x, SrcRoot)
        /\ sy.before[x].kind = "file"
        /\ p = LReal(fs, DstRoot \o RelOf(x, SrcRoot))
        /\ fs[p].data = sy.before[x].data

\* file p holds the bytes it held when Sync was called
HoldsOld(p) ==
    /\ p \in DOMAIN sy.before
    /\ sy.before[p].kind = "file"
    /\ fs[p].data = sy.before[p].data

\* C16.  Atomic visibility of copied files.  At every step of Sync, a
\* failed step included, every file outside src is either the temporary
\* file of the copy in progress, in the directory of the file being copied,
\* or holds what it held before the call or the complete source content; no
\* file that was there is gone; and once the copy of a file has returned,
\* with or without an error, there is no temporary file.
C16_AtomicVisibility ==
    SyncCalled =>
        /\ \A p \in DOMAIN fs :
             fs[p].kind = "file" /\ ~IsUnder(p, SrcRoot) =>
                 IF Base(p) = TempName
                 THEN /\ Running("file") /\ sy.pc # "open"
                      /\ p = LReal(fs, sy.tmp)
                      /\ Parent(p) = Parent(LReal(fs, DstRoot \o
                                                    Head(sy.tasks).rel))
                 ELSE HoldsOld(p) \/ HoldsSource(p)
        /\ \A p \in DOMAIN sy.before :
             sy.before[p].kind = "file" =>
                 p \in DOMAIN fs /\ fs[p].kind = "file"

\* a file is being copied over an existing file with force: half of the
\* bytes are in the temporary file, the destination holds the old bytes
C16_Witness ==
    /\ Running("file") /\ sy.pc = "copy" /\ sy.force
    /\ Len(fs[LReal(fs, sy.tmp)].data) = 1
    /\ LET dst == DstRoot \o Head(sy.tasks).rel
       IN /\ dst \in DOMAIN sy.before
          /\ fs[dst] = sy.before[dst]
          /\ fs[dst].data = OldContent(Head(sy.tasks).rel)

\* the names of src in the order Sync visits them
VisitOrder == ReadDir(sy.before, SrcRoot).names

\* C17.  When copying an entry fails, Sync returns the error at once.  The
\* entries were visited in name order up to the failing one and no later
\* one was looked at, copied or recorded; the entries copied before it are
\* still at the destination; the failing entry is in none of the lists.
C17_ErrorStopsSync ==
    sy.status = "error" /\ sy.failed # <<>> =>
        LET n == sy.failed[1]
        IN /\ sy.seen = SubSeq(VisitOrder, 1, Len(sy.seen))
           /\ \A m \in SrcNames :
                /\ Holds(sy.res.Copied, m) \/ Holds(sy.res.Skipped, m)
                      \/ Holds(sy.res.Forced, m) => StrLess(m, n)
                /\ Holds(sy.res.Copied, m) => Arrived(m)
                /\ StrLess(m, n) /\ ~DstHad(m) /\ SrcKind(m) \in {"file", "dir"}
                      => Holds(sy.res.Copied, m)
                /\ StrLess(n, m) =>
                      /\ ~Holds(sy.seen, m)
                      /\ Below(fs, Append(DstRoot, m))
                           = Below(sy.before, Append(DstRoot, m))

\* the copy of the second entry failed after the first entry was copied
C17_Witness ==
    /\ sy.status = "error" /\ sy.failed # <<>>
    /\ sy.failed[1] = NameB
    /\ sy.res.Copied = <<NameA>>
    /\ Append(DstRoot, NameA) \in DOMAIN fs
    /\ Append(DstRoot, NameA) \notin DOMAIN sy.before

\* C24.  runSync does not operate through a symbolic link: when dstDir
\* itself is a symbolic link, broken or not, runSync returns nil without
\* calling Sync, and the link, its target and everything else in the file
\* system are as they were, for either force value.
C24_SymlinkDstSkipped ==
    sy.status # "idle" /\ DstRoot \in DOMAIN sy.before
                       /\ sy.before[DstRoot].kind = "symlink" =>
        /\ sy.status = "linked"
        /\ sy.res = NoResult /\ sy.seen = <<>>
        /\ fs = sy.before

\* runSync has returned with force on a dstDir that is a link to a
\* directory, src holding a file to copy
C24_Witness ==
    /\ sy.status = "linked" /\ sy.force
    /\ fs[DstRoot] = Symlink(ExtDir)
    /\ Append(SrcRoot, NameA) \in DOMAIN fs
    /\ fs[Append(SrcRoot, NameA)].kind = "file"

\* the regular files and directories of the tree at root, by relative path
Layout(f, root) ==
    { <<RelOf(x, root), f[x].kind, f[x].data>> :
        x \in { y \in DOMAIN f : IsUnder(y, root) /\ f[y].kind \in {"file", "dir"} } }

\* C25.  Sync preserves permissions across the copied subtree: after a
\* successful copy, every regular file and every directory created under
\* dst has the permission mode of its source counterpart.
C25_ModesPreserved ==
    sy.status = "ok" =>
        \A x \in DOMAIN sy.before :
            /\ IsUnder(x, SrcRoot) /\ x # SrcRoot
            /\ sy.before[x].kind \in {"file", "dir"}
            /\ Holds(sy.res.Copied, RelOf(x, SrcRoot)[1])
            => LET p == DstRoot \o RelOf(x, SrcRoot)
               IN p \in DOMAIN fs /\ fs[p].mode = sy.before[x].mode

\* C28.  After a successful Sync(src, dst, true) the destination mirrors
\* the source: for every entry d of src that is a regular file or a
\* directory, the tree under dst/d has the relative paths of directories
\* and regular files of the tree under src/d, with the same file contents,
\* and nothing else.
C28_ForceMirrorsSource ==
    sy.status = "ok" /\ sy.force =>
        \A n \in SrcNames :
            SrcKind(n) \in {"file", "dir"} =>
                Layout(fs, Real(fs, Append(DstRoot, n)))
                    = Layout(sy.before, Append(SrcRoot, n))

\* copying the directory entry n failed in the call before this one, both
\* calls without force
FailedInDirectory(n) ==
    /\ sy.again /\ ~sy.force /\ ~sy.prev.force
    /\ sy.prev.failed # <<>>
    /\ sy.prev.failed[1] = n
    /\ Head(sy.prev.tasks).op \in {"dir", "file"}
    /\ SrcKind(n) = "dir"

\* C30.  A failed sync is completed by running it again without force: if
\* Sync(src, dst, false) returned an error while copying a directory entry
\* and a later Sync(src, dst, false) returns without one, dst holds every
\* regular file of that source directory with the source's content.
C30_RerunCompletes ==
    sy.status = "ok" =>
        \A n \in SrcNames : FailedInDirectory(n) => Arrived(n)

----------------------------------------------------------------------------
(***************************************************************************)
(* The settings command: run (cmd/claude-config-merge/run.go) with         *)
(* backup.Create.  disk maps the names of the files that exist to their    *)
(* bytes.  The bytes of a file are a JSON text, as somebody laid it out,   *)
(* or something that does not parse; part tells how many of them have      *)
(* been written.                                                           *)
(***************************************************************************)

\* total number of key entries of the master and local settings files
MaxRunEntries == 2

EmptyDocument == [sc |-> <<>>, ob |-> <<>>]

Text(doc, layout) == [doc |-> doc, layout |-> layout, part |-> "all"]
Junk == Text(EmptyDocument, "junk")

\* the files: master and local settings, the backup of local named after
\* the time of the call, and the temporary files of Create and of run
MasterPath == "master.json"
LocalPath == "settings.json"
BackupPath == "settings.json.20060102T150405.000.bak"
BackupTemp == ".backup-1"
MergeTemp == ".settings-merge-1"

\* loadJSON: os.ReadFile, then json.Unmarshal
readJSON(d, path) ==
    IF path \notin DOMAIN d THEN [err |-> "read", doc |-> EmptyDocument]
    ELSE IF d[path].layout = "junk" \/ d[path].part # "all"
    THEN [err |-> "parse", doc |-> EmptyDocument]
    ELSE [err |-> "", doc |-> d[path].doc]

\* json.MarshalIndent of the merged tree (with the newline run appends):
\* the members of every map, in the layout of the encoder
RECURSIVE marshalDoc(_, _)
marshalDoc(h, a) ==
    [sc |-> [k \in { x \in DOMAIN h[a] : ~IsMap(h[a][x]) } |-> h[a][k].s],
     ob |-> [k \in { x \in DOMAIN h[a] : IsMap(h[a][x]) } |->
               marshalDoc(h, h[a][k].ref)]]

MarshalIndent(h, a) == Text(marshalDoc(h, a), "indent")

\* os.CreateTemp in the directory of the settings file: a new empty file
CreateTempFile(d, tmp) == (tmp :> [Junk EXCEPT !.part = "none"]) @@ d

\* tmp.Write(data): the next bytes of data reach the file
WritePart(d, tmp, data) ==
    [d EXCEPT ![tmp] = IF @.part = "none" THEN [data EXCEPT !.part = "half"]
                       ELSE data]

\* os.Rename(tmp, path)
RenameFile(d, tmp, path) ==
    [x \in (DOMAIN d \ {tmp}) \cup {path} |-> IF x = path THEN d[tmp] ELSE d[x]]

\* os.Remove(tmp)
RemoveFile(d, tmp) == [x \in DOMAIN d \ {tmp} |-> d[x]]

NoMerge == [Merged |-> Nil, Conflicts |-> <<>>, Forced |-> <<>>,
            Added |-> <<>>, Matching |-> <<>>, LocalOnly |-> <<>>]

\* before run is called.  before is the disk at the call, m and l the
\* loaded documents, res and out the Result of Merge and its encoding, data
\* the bytes Create read, tmp the temporary file to remove on return,
\* failed the step at which run failed
NotRun == [status |-> "idle", force |-> FALSE, pc |-> "master",
           before |-> <<>>, m |-> EmptyDocument, l |-> EmptyDocument,
           merged |-> FALSE, res |-> NoMerge, out |-> Junk, data |-> Junk,
           tmp |-> "", failed |-> ""]

\* return fmt.Errorf(...): run fails at step at
runFail(s, at) == [s EXCEPT !.status = "error", !.failed = at, !.tmp = ""]

\* the deferred os.Remove(tmpName) of Create and of run
runCleanupNone(d, s) == d

runCleanup(d, s) == IF s.tmp # "" THEN RemoveFile(d, s.tmp) ELSE d

loadMaster(d, s) ==
    LET r == readJSON(d, MasterPath)
    IN IF r.err # "" THEN runFail(s, "master")
       ELSE [s EXCEPT !.m = r.doc, !.pc = "local"]

loadLocal(d, s) ==
    LET r == readJSON(d, LocalPath)
    IN IF r.err # "" THEN runFail(s, "local")
       ELSE [s EXCEPT !.l = r.doc, !.pc = "merge"]

\* len(result.Added) == 0 && len(result.Forced) == 0
noChangesNoConflicts(res) == Len(res.Added) = 0 /\ Len(res.Conflicts) = 0

noChanges(res) == Len(res.Added) = 0 /\ Len(res.Forced) = 0

\* Merge is called on the loaded maps; with nothing added and nothing
\* forced run returns nil here
runMerge(s, order) ==
    LET out == Merge(loadJSON(s.m, "master") @@ loadJSON(s.l, "local"),
                     Addr("master", 0, <<>>), Addr("local", 0, <<>>),
                     s.force, order, Addr("merged", 1, <<>>))
        s1 == [s EXCEPT !.merged = TRUE, !.res = out.result,
                        !.out = MarshalIndent(out.heap, out.result.Merged)]
    IN IF noChanges(out.result) THEN [s1 EXCEPT !.status = "ok"]
       ELSE [s1 EXCEPT !.pc = "backup"]

\* the bytes backup.Create copies: os.ReadFile(path)
backupDataReencoded(d, path) == Text(d[path].doc, "indent")

backupData(d, path) == d[path]

\* backup.Create: the file is read and the temporary file is created
backupOpen(d, s) ==
    IF LocalPath \notin DOMAIN d
    THEN [disk |-> d, rs |-> runFail(s, "backup")]
    ELSE [disk |-> CreateTempFile(d, BackupTemp),
          rs |-> [s EXCEPT !.data = backupData(d, LocalPath),
                           !.tmp = BackupTemp, !.pc = "backupWrite"]]

\* backup.Create: tmp.Write(data)
backupWrite(d, s) ==
    [disk |-> WritePart(d, BackupTemp, s.data), rs |-> s]

\* backup.Create: the temporary file is closed and renamed to backupPath
backupRename(d, s) ==
    [disk |-> RenameFile(d, BackupTemp, BackupPath),
     rs |-> [s EXCEPT !.tmp = "", !.pc = "temp"]]

\* run: the merged tree is encoded and the temporary file is created
createTemp(d, s) ==
    [disk |-> CreateTempFile(d, MergeTemp),
     rs |-> [s EXCEPT !.tmp = MergeTemp, !.pc = "write"]]

\* run: tmp.Write(append(out, '\n'))
writeTemp(d, s) ==
    [disk |-> WritePart(d, MergeTemp, s.out), rs |-> s]

\* run: the temporary file is closed and renamed to localPath
renameLocal(d, s) ==
    [disk |-> RenameFile(d, MergeTemp, LocalPath),
     rs |-> [s EXCEPT !.tmp = "", !.status = "ok"]]

----------------------------------------------------------------------------
(* The files run is started on *)

RunDocuments == Documents(MaxRunEntries)

\* a file is missing, or does not parse, or holds a document
FileStates == { <<>>, <<Junk>> } \cup { <<Text(t, "hand")>> : t \in RunDocuments }

Disks ==
    { (IF x[1] = <<>> THEN <<>> ELSE MasterPath :> x[1][1])
      @@ (IF x[2] = <<>> THEN <<>> ELSE LocalPath :> x[2][1]) :
        x \in { y \in FileStates \X FileStates :
                  LET size(f) == IF f = <<>> THEN 0 ELSE Size(f[1].doc)
                  IN size(y[1]) + size(y[2]) <= MaxRunEntries } }

RunInit ==
    /\ disk \in Disks
    /\ rs = NotRun
    /\ heap = <<>> /\ master = Nil /\ local = Nil /\ calls = <<>>
    /\ fs = <<>> /\ sy = <<>>
    /\ cl = <<>> /\ cmd = Single

At_(pc) == rs.status = "running" /\ rs.pc = pc

RunStep(out) ==
    /\ disk' = out.disk
    /\ rs' = out.rs
    /\ UNCHANGED <<mergeVars, syncVars, cmdVars>>

\* run(masterPath, localPath, force, w) is called
runStart(d, s, force) ==
    [disk |-> d,
     rs |-> [s EXCEPT !.status = "running", !.force = force, !.before = d]]

RunCall ==
    /\ rs.status = "idle"
    /\ cmd.stage = "single"
    /\ \E force \in BOOLEAN : RunStep(runStart(disk, rs, force))

LoadMaster ==
    /\ At_("master")
    /\ RunStep([disk |-> disk, rs |-> loadMaster(disk, rs)])

LoadLocal ==
    /\ At_("local")
    /\ RunStep([disk |-> disk, rs |-> loadLocal(disk, rs)])

RunMerge ==
    /\ At_("merge")
    /\ \E order \in Orders : RunStep([disk |-> disk, rs |-> runMerge(rs, order)])

BackupOpen ==
    /\ At_("backup")
    /\ RunStep(backupOpen(disk, rs))

BackupWrite ==
    /\ At_("backupWrite") /\ disk[BackupTemp].part # "all"
    /\ RunStep(backupWrite(disk, rs))

BackupRename ==
    /\ At_("backupWrite") /\ disk[BackupTemp].part = "all"
    /\ RunStep(backupRename(disk, rs))

CreateTempStep ==
    /\ At_("temp")
    /\ RunStep(createTemp(disk, rs))

WriteTemp ==
    /\ At_("write") /\ disk[MergeTemp].part # "all"
    /\ RunStep(writeTemp(disk, rs))

RenameLocal ==
    /\ At_("write") /\ disk[MergeTemp].part = "all"
    /\ RunStep(renameLocal(disk, rs))

\* the system call about to be made fails: the deferred removal runs and
\* run returns the error.  Merge itself makes no system call
RunFail ==
    /\ rs.status = "running" /\ rs.pc # "merge"
    /\ RunStep([disk |-> runCleanup(disk, rs), rs |-> runFail(rs, rs.pc)])

RunNext ==
    \/ RunCall
    \/ LoadMaster
    \/ LoadLocal
    \/ RunMerge
    \/ BackupOpen
    \/ BackupWrite
    \/ BackupRename
    \/ CreateTempStep
    \/ WriteTemp
    \/ RenameLocal
    \/ RunFail

RunSpec == RunInit /\ [][RunNext]_vars

----------------------------------------------------------------------------
(* Properties of run *)

\* a step that replaces the local settings file starts with the backup in
\* place, complete and equal to the local file of before the run, and
\* leaves the backup alone
ReplacedAfterBackup ==
    LocalPath \in DOMAIN disk /\ disk'[LocalPath] # disk[LocalPath] =>
        /\ BackupPath \in DOMAIN disk
        /\ disk[BackupPath].part = "all"
        /\ disk[BackupPath] = rs.before[LocalPath]
        /\ disk[LocalPath] = rs.before[LocalPath]
        /\ disk'[BackupPath] = disk[BackupPath]

\* C18.  Whenever a step of run replaces the local settings file, the
\* backup file <localPath>.<timestamp>.bak is there already, completely
\* written and byte-identical to the local file as it was before the run,
\* and the step leaves it alone; and if creating the backup failed, run has
\* returned an error and the local file is as it was.
C18_BackupBeforeReplace ==
    /\ [][ReplacedAfterBackup]_vars
    /\ [](rs.failed \in {"backup", "backupWrite"} =>
             /\ rs.status = "error"
             /\ disk[LocalPath] = rs.before[LocalPath])

\* run with force has replaced the local file by the merged tree and the
\* backup holds the old bytes
C18_Witness ==
    /\ rs.status = "ok" /\ rs.force
    /\ rs.res.Forced # <<>>
    /\ disk[LocalPath] = rs.out
    /\ disk[LocalPath] # rs.before[LocalPath]
    /\ disk[BackupPath] = rs.before[LocalPath]

\* C19.  run writes nothing when the merge changes nothing: with nothing in
\* Added and nothing in Forced, run returns nil and no file has been
\* created or modified (no backup, no temporary file, the same local file).
C19_NoChangesNoWrites ==
    rs.merged /\ rs.res.Added = <<>> /\ rs.res.Forced = <<>> =>
        /\ rs.status = "ok"
        /\ disk = rs.before

\* run without force has returned: master and local hold conflicting
\* values and nothing else, and nothing was written
C19_Witness ==
    /\ rs.status = "ok" /\ ~rs.force
    /\ rs.res.Conflicts # <<>>
    /\ rs.res.Added = <<>>
    /\ disk = rs.before

\* C20.  run is all-or-nothing for the local settings file: whenever run
\* has returned an error, the local file is as it was before the call
\* (missing if it was missing) and no ".settings-merge-*" file remains; on
\* a load or parse error Merge has not been run and there is no backup.
C20_ErrorLeavesLocal ==
    rs.status = "error" =>
        /\ (LocalPath \in DOMAIN disk) = (LocalPath \in DOMAIN rs.before)
        /\ LocalPath \in DOMAIN disk =>
              disk[LocalPath] = rs.before[LocalPath]
        /\ MergeTemp \notin DOMAIN disk
        /\ rs.failed \in {"master", "local"} =>
              /\ ~rs.merged
              /\ BackupPath \notin DOMAIN disk

\* run has failed while writing the temporary file, after the backup
C20_Witness ==
    /\ rs.status = "error" /\ rs.failed = "write"
    /\ BackupPath \in DOMAIN disk
    /\ rs.before[LocalPath] = disk[LocalPath]
    /\ rs.tmp = ""

----------------------------------------------------------------------------
(* Further properties of Merge *)

\* C23.  With force=true master wins everywhere: after R = Merge(M, L,
\* true) every key of M at every depth is in R.Merged, every value of M
\* that is not an object is at its path unchanged, and R.Conflicts is
\* empty; Merge(M, R.Merged, true) then has empty Added, Forced and
\* Conflicts and returns a tree equal to R.Merged.
C23_ForceMasterWins ==
    Returned(TRUE) =>
        LET h  == calls[1].before
            ha == AfterCall(1)
            r  == calls[1].result
        IN /\ \A p \in AllPaths(h, master) :
                /\ HasPath(ha, r.Merged, p)
                /\ ~IsMap(ValAt(h, master, p)) =>
                      SameValue(ha, ValAt(ha, r.Merged, p),
                                h, ValAt(h, master, p))
           /\ r.Conflicts = <<>>
           /\ Len(calls) = 2 /\ calls[2].force =>
                /\ calls[2].result.Added = <<>>
                /\ calls[2].result.Forced = <<>>
                /\ calls[2].result.Conflicts = <<>>
                /\ SameValue(heap, Ref(calls[2].result.Merged),
                             ha, Ref(r.Merged))

\* two calls with force have returned; the first overwrote a value of
\* local and added a key
C23_Witness ==
    /\ Len(calls) = 2
    /\ calls[1].force /\ calls[2].force
    /\ calls[1].result.Forced # <<>>
    /\ calls[1].result.Added # <<>>
    /\ calls[2].result.Matching # <<>>

\* the qualified keys that local holds and master lacks at the levels where
\* every ancestor key holds an object in both trees
LocalExclusive(h, m, l) ==
    { QualifiedPath(e.path) :
        e \in { x \in LocalEntries(h, m, l) : x.k \notin DOMAIN h[x.m] } }

\* C26.  LocalOnly is exactly the set of qualified keys that the original
\* local holds and master lacks at a level where every ancestor key holds
\* an object in both trees: no key that Merge added from master is in it,
\* and a key of local three levels deep is in it under its full path.
C26_LocalOnlyExact ==
    calls # <<>> =>
        LET h == calls[1].before
            r == calls[1].result
        IN /\ { r.LocalOnly[i] : i \in DOMAIN r.LocalOnly }
                = LocalExclusive(h, master, local)
           /\ \A i \in DOMAIN r.LocalOnly, j \in DOMAIN r.Added :
                r.LocalOnly[i] # r.Added[j]

\* list s is in ascending order by key
Sorted(s) == \A i \in DOMAIN s : i < Len(s) => ~StrLess(s[i + 1], s[i])

\* C27.  Merge is deterministic whatever the order in which keys are
\* traversed: every traversal order gives the Result the call returned,
\* with Added, Matching, LocalOnly and Forced in ascending order and
\* Conflicts in ascending order of Key, the same record at every position.
C27_OrderIndependent ==
    calls # <<>> =>
        LET h == calls[1].before
            r == calls[1].result
        IN /\ Sorted(r.Added) /\ Sorted(r.Matching)
           /\ Sorted(r.LocalOnly) /\ Sorted(r.Forced)
           /\ Sorted(ConflictKeys(r))
           /\ \A order \in Orders :
                LET o == Merge(h, master, local, calls[1].force, order,
                               r.Merged)
                IN /\ o.result = r
                   /\ SameValue(o.heap, Ref(r.Merged),
                                AfterCall(1), Ref(r.Merged))

----------------------------------------------------------------------------
(***************************************************************************)
(* The cleanup-bak command: runCleanupBak                                  *)
(* (cmd/claude-config-merge/cleanup.go) on the directory ~/.claude.  The   *)
(* names of the directory are byte strings, so that the test on the prefix *)
(* and the suffix of a name is computed as the code computes it.           *)
(***************************************************************************)

\* ".claude", the directory the command works on
ClaudeDir == << <<46, 99, 108, 97, 117, 100, 101>> >>

\* "settings.json", and the same name with ".20240101T120000.bak",
\* ".20240102T130000.bak", ".bak.old", ".bak" and ".20240103T140000.bak"
\* after it; "notes.bak"
SettingsName == <<115, 101, 116, 116, 105, 110, 103, 115, 46, 106, 115, 111, 110>>
Backup1 == <<115, 101, 116, 116, 105, 110, 103, 115, 46, 106, 115, 111, 110, 46, 50, 48, 50, 52, 48, 49, 48, 49, 84, 49, 50, 48, 48, 48, 48, 46, 98, 97, 107>>
Backup2 == <<115, 101, 116, 116, 105, 110, 103, 115, 46, 106, 115, 111, 110, 46, 50, 48, 50, 52, 48, 49, 48, 50, 84, 49, 51, 48, 48, 48, 48, 46, 98, 97, 107>>
BackupOld == <<115, 101, 116, 116, 105, 110, 103, 115, 46, 106, 115, 111, 110, 46, 98, 97, 107, 46, 111, 108, 100>>
BackupBare == <<115, 101, 116, 116, 105, 110, 103, 115, 46, 106, 115, 111, 110, 46, 98, 97, 107>>
BackupDir == <<115, 101, 116, 116, 105, 110, 103, 115, 46, 106, 115, 111, 110, 46, 50, 48, 50, 52, 48, 49, 48, 51, 84, 49, 52, 48, 48, 48, 48, 46, 98, 97, 107>>
NotesName == <<110, 111, 116, 101, 115, 46, 98, 97, 107>>

\* "settings.json." and ".bak"
BakPrefix == <<115, 101, 116, 116, 105, 110, 103, 115, 46, 106, 115, 111, 110, 46>>
BakSuffix == <<46, 98, 97, 107>>

\* strings.HasPrefix and strings.HasSuffix
HasPrefix(s, prefix) ==
    Len(s) >= Len(prefix) /\ SubSeq(s, 1, Len(prefix)) = prefix
HasSuffix(s, suffix) ==
    Len(s) >= Len(suffix)
        /\ SubSeq(s, Len(s) - Len(suffix) + 1, Len(s)) = suffix

\* the test on the name of an entry
isBackupName(name) == HasPrefix(name, BakPrefix) /\ HasSuffix(name, BakSuffix)

\* before runCleanupBak is called.  before is the file system at the call,
\* bakFiles the names still to delete, deleted and errs the names whose
\* os.Remove succeeded and failed, failed the step that made the call fail
NotCleaned == [status |-> "idle", before |-> <<>>, bakFiles |-> <<>>,
               deleted |-> <<>>, errs |-> <<>>, failed |-> ""]

\* runCleanupBak up to the loop that deletes: the directory is read and the
\* names to delete are collected
cleanStart(f) ==
    LET entries == ReadDir(f, ClaudeDir)
        isDir(n) == f[Append(Real(f, ClaudeDir), n)].kind = "dir"
        bakFiles == SelectSeq(entries.names,
                              LAMBDA n : ~isDir(n) /\ isBackupName(n))
        s == [NotCleaned EXCEPT !.before = f]
    IN IF entries.err # ""
       THEN [s EXCEPT !.status = "error", !.failed = "readdir"]
       ELSE IF bakFiles = <<>>
       THEN [s EXCEPT !.status = "ok"]
       ELSE [s EXCEPT !.status = "running", !.bakFiles = bakFiles]

\* one round of the loop: os.Remove(path) succeeds
removeBackup(f, s) ==
    [fs |-> Remove(f, Append(ClaudeDir, Head(s.bakFiles))),
     cl |-> [s EXCEPT !.bakFiles = Tail(@),
                      !.deleted = Append(@, Head(s.bakFiles))]]

\* one round of the loop: os.Remove(path) fails; the error is kept and the
\* loop goes on
removeFailedStops(s) ==
    [s EXCEPT !.bakFiles = <<>>, !.errs = Append(@, Head(s.bakFiles))]

removeFailed(s) ==
    [s EXCEPT !.bakFiles = Tail(@), !.errs = Append(@, Head(s.bakFiles))]

\* return errors.Join(errs...): nil when there is no error
cleanReturn(s) ==
    [s EXCEPT !.status = IF s.errs = <<>> THEN "ok" ELSE "error",
              !.failed = IF s.errs = <<>> THEN "" ELSE "remove"]

\* the directories the command is started on: missing, or holding any of
\* settings.json, two backups, settings.json.bak.old, settings.json.bak,
\* notes.bak and a directory with the name of a backup
CleanTrees ==
    { <<>> } \cup
    { (ClaudeDir :> Dir("0755")) @@ Under(ClaudeDir,
          (IF b[1] THEN <<SettingsName>> :> File(<<"settings">>, "0600") ELSE <<>>)
       @@ (IF b[2] THEN <<Backup1>> :> File(<<"backup1">>, "0600") ELSE <<>>)
       @@ (IF b[3] THEN <<Backup2>> :> File(<<"backup2">>, "0600") ELSE <<>>)
       @@ (IF b[4] THEN <<BackupOld>> :> File(<<"old">>, "0600") ELSE <<>>)
       @@ (IF b[5] THEN <<BackupBare>> :> File(<<"bare">>, "0600") ELSE <<>>)
       @@ (IF b[6] THEN <<NotesName>> :> File(<<"notes">>, "0600") ELSE <<>>)
       @@ (IF b[7] THEN (<<BackupDir>> :> Dir("0755"))
                        @@ (<<BackupDir, NameF>> :> File(<<"kept">>, "0600"))
           ELSE <<>>)) :
        b \in [1..7 -> BOOLEAN] }

CleanInit ==
    /\ fs \in CleanTrees
    /\ cl = NotCleaned
    /\ heap = <<>> /\ master = Nil /\ local = Nil /\ calls = <<>>
    /\ sy = <<>> /\ disk = <<>> /\ rs = <<>> /\ cmd = Single

CleanStep(out) ==
    /\ fs' = out.fs
    /\ cl' = out.cl
    /\ UNCHANGED <<mergeVars, sy, runVars, cmd>>

\* runCleanupBak(claudeDir, w) is called
CleanCall ==
    /\ cl.status = "idle"
    /\ CleanStep([fs |-> fs, cl |-> cleanStart(fs)])

RemoveBackup ==
    /\ cl.status = "running" /\ cl.bakFiles # <<>>
    /\ CleanStep(removeBackup(fs, cl))

\* os.Remove fails (the directory is read-only, the file is in use)
RemoveFailed ==
    /\ cl.status = "running" /\ cl.bakFiles # <<>>
    /\ CleanStep([fs |-> fs, cl |-> removeFailed(cl)])

CleanReturn ==
    /\ cl.status = "running" /\ cl.bakFiles = <<>>
    /\ CleanStep([fs |-> fs, cl |-> cleanReturn(cl)])

CleanNext ==
    \/ CleanCall
    \/ RemoveBackup
    \/ RemoveFailed
    \/ CleanReturn

CleanSpec == CleanInit /\ [][CleanNext]_vars

----------------------------------------------------------------------------
(* Properties of runCleanupBak *)

CleanReturned == cl.status \in {"ok", "error"}

\* the names of the directory when the command was called
CleanNames ==
    { Base(x) : x \in { y \in DOMAIN cl.before :
                          Len(y) = Len(ClaudeDir) + 1 /\ Parent(y) = ClaudeDir } }

\* the entry is a backup file for the command: not a directory, with the
\* prefix and the suffix in its name
Matching(n) ==
    /\ cl.before[Append(ClaudeDir, n)].kind # "dir"
    /\ HasPrefix(n, BakPrefix) /\ HasSuffix(n, BakSuffix)

\* every backup file was attempted once, the deleted ones are gone and the
\* others are there as they were
EveryBackupAttempted ==
    \A n \in CleanNames :
        /\ Matching(n) => Count(cl.deleted, n) + Count(cl.errs, n) = 1
        /\ Holds(cl.deleted, n) => Append(ClaudeDir, n) \notin DOMAIN fs
        /\ ~Holds(cl.deleted, n) =>
              Below(fs, Append(ClaudeDir, n))
                  = Below(cl.before, Append(ClaudeDir, n))

\* C21 as stated.  runCleanupBak attempts to delete every matching backup
\* file, a failed deletion does not stop the attempts on the others, and
\* the call returns an error if and only if at least one deletion failed.
C21_ErrorIffDeletionFailed ==
    CleanReturned =>
        /\ ClaudeDir \in DOMAIN cl.before => EveryBackupAttempted
        /\ cl.status = "error" <=> cl.errs # <<>>

\* C21 as the code has it.  When the directory can be read, runCleanupBak
\* attempts to delete every matching backup file, a failed deletion does
\* not stop the attempts on the others, and the call returns an error if
\* and only if at least one deletion failed; when the directory cannot be
\* read it returns an error and deletes nothing.
C21_PartialFailureTolerated ==
    CleanReturned =>
        IF ClaudeDir \in DOMAIN cl.before
        THEN /\ EveryBackupAttempted
             /\ cl.status = "error" <=> cl.errs # <<>>
        ELSE /\ cl.status = "error" /\ cl.failed = "readdir"
             /\ cl.deleted = <<>> /\ cl.errs = <<>>
             /\ fs = cl.before

\* the command has returned an error: the deletion of the first backup
\* failed, the second and settings.json.bak were deleted after it
C21_Witness ==
    /\ cl.status = "error"
    /\ cl.errs = <<Backup1>>
    /\ cl.deleted = <<Backup2, BackupBare>>
    /\ Append(ClaudeDir, Backup1) \in DOMAIN fs
    /\ Append(ClaudeDir, Backup2) \notin DOMAIN fs

\* the name is settings.json.*.bak: the prefix, a timestamp part that is
\* not empty, the suffix
TimestampedBackup(n) ==
    /\ HasPrefix(n, BakPrefix) /\ HasSuffix(n, BakSuffix)
    /\ Len(n) > Len(BakPrefix) + Len(BakSuffix)

\* C29.  runCleanupBak deletes only files named settings.json.*.bak that
\* are not directories: every other entry of the directory (settings.json,
\* names such as settings.json.bak.old, subdirectories) is there with its
\* content unchanged after the call, and when nothing matches the call
\* deletes nothing and returns nil.
C29_OnlyBackupsDeleted ==
    CleanReturned /\ ClaudeDir \in DOMAIN cl.before =>
        LET backups == { n \in CleanNames :
                           /\ cl.before[Append(ClaudeDir, n)].kind # "dir"
                           /\ TimestampedBackup(n) }
        IN /\ \A n \in CleanNames \ backups :
                Below(fs, Append(ClaudeDir, n))
                    = Below(cl.before, Append(ClaudeDir, n))
           /\ backups = {} => /\ cl.status = "ok"
                              /\ cl.deleted = <<>>
                              /\ fs = cl.before

----------------------------------------------------------------------------
(***************************************************************************)
(* The all command of dispatch (cmd/claude-config-merge/main.go): run on   *)
(* the settings, then runSync on the agents, then runSync on the skills.   *)
(* cmd.stage is where dispatch is, cmd.start the file tree at the start,   *)
(* cmd.agents the call of runSync on the agents once it has returned.      *)
(***************************************************************************)

\* if err := ...; err != nil { return err }: dispatch goes on to the next
\* step after a call that returned nil
proceedsAlways(status) == status \in {"ok", "linked", "error"}

proceeds(status) == status \in {"ok", "linked"}

\* dispatch has been called with the subcommand all
AllCalled == [stage |-> "start", force |-> FALSE, start |-> <<>>,
              agents |-> Idle]

\* the settings files: master does not parse or holds one key; local is
\* empty, equal to master, or holds another value for the key
AllDisks ==
    { (MasterPath :> m) @@ (LocalPath :> Text(l, "hand")) :
        m \in { Junk, Text([sc |-> <<97>> :> "x", ob |-> <<>>], "hand") },
        l \in { EmptyDocument,
                [sc |-> <<97>> :> "x", ob |-> <<>>],
                [sc |-> <<97>> :> "y", ob |-> <<>>] } }

\* the trees of the agents and of the skills
AllTrees ==
    { (ExtDir :> Dir("0755")) @@ (Parent(AgentsDst) :> Dir("0755"))
        @@ as @@ ad @@ ss @@ sd :
        as \in { <<>>,
                 (AgentsSrc :> Dir("0755")) @@ Under(AgentsSrc,
                     (<<NameA>> :> Dir("0755")) @@ NewFile(<<NameA, NameF>>)) },
        ad \in { <<>>,
                 (AgentsDst :> Dir("0750")) @@ Under(AgentsDst, OldFile(<<NameA>>)) },
        ss \in { (SkillsSrc :> Dir("0755")) @@ Under(SkillsSrc, NewFile(<<NameA>>)),
                 (SkillsSrc :> Dir("0755")) @@ Under(SkillsSrc,
                     (<<NameA>> :> Dir("0755")) @@ NewFile(<<NameA, NameF>>)) },
        sd \in { (SkillsDst :> Dir("0750")) @@ Under(SkillsDst, OldFile(<<NameA>>)),
                 SkillsDst :> Symlink(ExtDir) } }

AllInit ==
    /\ fs \in AllTrees
    /\ cmd = [AllCalled EXCEPT !.start = fs]
    /\ cl = <<>>
    /\ sy = Idle
    /\ disk \in AllDisks
    /\ rs = NotRun
    /\ heap = <<>> /\ master = Nil /\ local = Nil /\ calls = <<>>

\* case "all": the force flag is parsed
AllCall ==
    /\ cmd.stage = "start"
    /\ \E force \in BOOLEAN :
         cmd' = [cmd EXCEPT !.stage = "settings", !.force = force]
    /\ UNCHANGED <<mergeVars, syncVars, runVars, cl>>

\* run(masterPath, localPath, force, w)
AllRun ==
    /\ cmd.stage = "settings"
    /\ rs.status = "idle"
    /\ RunStep(runStart(disk, rs, cmd.force))

\* run has returned nil: dispatch goes on to the agents
AllAgents ==
    /\ cmd.stage = "settings"
    /\ rs.status \in {"ok", "error"}
    /\ proceeds(rs.status)
    /\ cmd' = [cmd EXCEPT !.stage = "agents"]
    /\ UNCHANGED <<mergeVars, syncVars, runVars, cl>>

\* runSync(agentsSrc, agentsDst, force, "Agents", w) and
\* runSync(skillsSrc, skillsDst, force, "Skills", w)
AllSync ==
    /\ cmd.stage \in {"agents", "skills"}
    /\ sy.status = "idle"
    /\ Step(runSync(fs, cmd.force))

\* runSync has returned nil for the agents: dispatch goes on to the skills
AllSkills ==
    /\ cmd.stage = "agents"
    /\ sy.status \in {"ok", "linked", "error"}
    /\ proceeds(sy.status)
    /\ cmd' = [cmd EXCEPT !.stage = "skills", !.agents = sy]
    /\ sy' = Idle
    /\ UNCHANGED <<mergeVars, fs, runVars, cl>>

\* dispatch returns: the error of the step that failed, or what runSync
\* returned for the skills
AllReturn ==
    /\ \/ cmd.stage = "settings" /\ rs.status = "error"
       \/ cmd.stage = "agents" /\ sy.status = "error"
       \/ cmd.stage = "skills" /\ sy.status \in {"ok", "linked", "error"}
    /\ cmd' = [cmd EXCEPT !.stage =
                 IF cmd.stage = "skills" /\ sy.status # "error"
                 THEN "done" ELSE "failed"]
    /\ UNCHANGED <<mergeVars, syncVars, runVars, cl>>

AllNext ==
    \/ AllCall
    \/ AllRun
    \/ LoadMaster
    \/ LoadLocal
    \/ RunMerge
    \/ BackupOpen
    \/ BackupWrite
    \/ BackupRename
    \/ CreateTempStep
    \/ WriteTemp
    \/ RenameLocal
    \/ RunFail
    \/ AllAgents
    \/ AllSync
    \/ VisitEntry
    \/ CopyDir
    \/ CopyFileOpen
    \/ CopyFileChmod
    \/ CopyFileCopy
    \/ CopyFileRename
    \/ RecordEntry
    \/ SyncReturn
    \/ SyncFail
    \/ AllSkills
    \/ AllReturn

AllSpec == AllInit /\ [][AllNext]_vars

----------------------------------------------------------------------------
(* Properties of the all command *)

\* runSync has been called for the agents, and for the skills
AgentsStarted == cmd.agents.status # "idle" \/ (cmd.stage # "skills" /\ sy.status # "idle")
SkillsStarted == cmd.agents.status # "idle" /\ sy.status # "idle"

\* C22.  The all command runs the settings merge, then the agents sync,
\* then the skills sync, with the same force flag; a step starts only after
\* the one before it returned without error, and the first error ends the
\* command: a failing settings merge leaves the destinations of the agents
\* and of the skills untouched.
C22_AllInSequence ==
    /\ rs.status # "idle" => rs.force = cmd.force
    /\ sy.status # "idle" => sy.force = cmd.force
    /\ cmd.agents.status # "idle" => cmd.agents.force = cmd.force
    /\ AgentsStarted => rs.status = "ok"
    /\ SkillsStarted => cmd.agents.status \in {"ok", "linked"}
    /\ ~AgentsStarted => Below(fs, AgentsDst) = Below(cmd.start, AgentsDst)
    /\ ~SkillsStarted => Below(fs, SkillsDst) = Below(cmd.start, SkillsDst)
    /\ rs.status = "error" =>
         /\ cmd.stage \in {"settings", "failed"}
         /\ sy = Idle /\ cmd.agents = Idle
         /\ fs = cmd.start
    /\ cmd.stage = "done" =>
         /\ rs.status = "ok"
         /\ cmd.agents.status \in {"ok", "linked"}
         /\ sy.status \in {"ok", "linked"}

\* the command has returned nil with force: the settings were rewritten
\* from master, the agents were copied and the skills overwritten
C22_Witness ==
    /\ cmd.stage = "done" /\ cmd.force
    /\ rs.merged /\ disk[LocalPath] # rs.before[LocalPath]
    /\ cmd.agents.res.Copied = <<NameA>>
    /\ sy.res.Forced = <<NameA>>
    /\ AgentsDst \o <<NameA, NameF>> \in DOMAIN fs

====
